---- MODULE Spec2Model ----
(***************************************************************************)
(* Expense tracker: message parser, allocation of an expense into "my      *)
(* share" and peer-debt (reimbursement) rows, and the HTTP handlers that   *)
(* write them to the expenses / reimbursements tables.                     *)
(*                                                                         *)
(* A request handler is an async function: between two awaited database    *)
(* statements another request may run.  Each awaited repository call is    *)
(* one step of the model; a repository function first awaits               *)
(* ensureSchema() and then issues its statement, and the two are taken as  *)
(* one step.                                                               *)
(*                                                                         *)
(* Money is a JavaScript number in the handlers and NUMERIC (unbounded     *)
(* precision) in the tables.  The model computes with exact rationals:     *)
(* floating-point rounding is not modelled.                                *)
(***************************************************************************)
EXTENDS Integers, Sequences, FiniteSets, TLC

(***************************************************************************)
(* Bounds of the model.                                                    *)
(***************************************************************************)
MaxOps == 3
MaxInFlight == 2

(***************************************************************************)
(* Exact rational arithmetic: [n |-> numerator, d |-> denominator > 0],    *)
(* kept in lowest terms so that equal numbers are equal records.           *)
(***************************************************************************)
Abs(x) == IF x < 0 THEN -x ELSE x

RECURSIVE GCD(_, _)
GCD(a, b) == IF b = 0 THEN a ELSE GCD(b, a % b)

Rat(n, d) ==
  LET g == GCD(Abs(n), d)
  IN  IF n = 0 THEN [n |-> 0, d |-> 1] ELSE [n |-> n \div g, d |-> d \div g]

Num(k) == [n |-> k, d |-> 1]
Zero == Num(0)
RAdd(x, y) == Rat(x.n * y.d + y.n * x.d, x.d * y.d)
RSub(x, y) == Rat(x.n * y.d - y.n * x.d, x.d * y.d)
RMulInt(x, k) == Rat(x.n * k, x.d)
RDivInt(x, k) == Rat(x.n, x.d * k)
RLt(x, y) == x.n * y.d < y.n * x.d
RLe(x, y) == x.n * y.d <= y.n * x.d
RPos(x) == x.n > 0

(***************************************************************************)
(* Message text.  A text is the sequence of its whitespace-delimited       *)
(* tokens (normalize() collapses all whitespace to single spaces before    *)
(* the text is split).  A token is a record:                               *)
(*   k = "word"    a word without digits, spelled s                        *)
(*   k = "num"     a bare number a                                         *)
(*   k = "ratio"   the word "a/b"                                          *)
(*   k = "paidby"  "paidby:s"                                              *)
(*   k = "for"     "for:s"                                                 *)
(*   k = "other"   "other:p1,p2,..." with comma-separated parts ps         *)
(*                 ("" is an empty part, as in "other:,kevin")             *)
(*   k = "splitkv" "split:s" where s = "equal", or s = "ratio" when the    *)
(*                 value is spelled a/b, or any other word                 *)
(*   k = "split"   the bare word "split"                                   *)
(*   k = "amt"     a number as it is spelled, symbol by symbol, in ps      *)
(*                 ("$", "usd", digits, ",", "." and following letters)    *)
(*   k = "isodate" a date YYYY-MM-DD: s is the date, ps its symbols        *)
(*   k = "slashdate" a date D/M/YYYY: ps its symbols                       *)
(*   k = a meta key ("card", "type", "acct", "account", "asset", "inv",    *)
(*                 "investment", "liab", "liability", "cp",                *)
(*                 "counterparty", "person", "dir", "direction", "owner"): *)
(*                 the token "k:value", with the value's symbols in ps     *)
(* A symbol is one character, or a run of letters written as one string.   *)
(***************************************************************************)
Undef == "undefined"
NoRatio == 0
NoNum == [n |-> 0, d |-> 0]

Tok(k, s, a, b, ps) == [k |-> k, s |-> s, a |-> a, b |-> b, ps |-> ps]
TWord(w) == Tok("word", w, 0, 0, <<>>)
TNum(x) == Tok("num", "", x, 0, <<>>)
TRatio(a, b) == Tok("ratio", "", a, b, <<>>)
TPaidBy(v) == Tok("paidby", v, 0, 0, <<>>)
TFor(p) == Tok("for", p, 0, 0, <<>>)
TOther(ps) == Tok("other", "", 0, 0, ps)
TSplitEqual == Tok("splitkv", "equal", 0, 0, <<>>)
TSplitRatio(a, b) == Tok("splitkv", "ratio", a, b, <<>>)
TSplitWord(w) == Tok("splitkv", w, 0, 0, <<>>)
TSplit == Tok("split", "", 0, 0, <<>>)
TAmt(ps) == Tok("amt", "", 0, 0, ps)
TIso(s, ps) == Tok("isodate", s, 0, 0, ps)
TSlash(ps) == Tok("slashdate", "", 0, 0, ps)
TKv(key, ps) == Tok(key, "", 0, 0, ps)
TOwner(p) == Tok("owner", p, 0, 0, <<>>)

\* String.prototype.toLowerCase on the names the model uses.
Lower(s) ==
  CASE s = "Kevin" -> "kevin"
    [] s = "USD" -> "usd"
    [] s = "Food" -> "food"
    [] s = "Spent" -> "spent"
    [] s = "Receivable" -> "receivable"
    [] OTHER -> s

\* Array.prototype.filter(Boolean) on an array of strings.
RECURSIVE FilterNonEmpty(_)
FilterNonEmpty(q) ==
  IF q = <<>> THEN <<>>
  ELSE IF Head(q) = "" THEN FilterNonEmpty(Tail(q))
       ELSE <<Head(q)>> \o FilterNonEmpty(Tail(q))

RECURSIVE MapLower(_)
MapLower(q) == IF q = <<>> THEN <<>> ELSE <<Lower(Head(q))>> \o MapLower(Tail(q))

SeqRange(q) == { q[i] : i \in 1..Len(q) }

\* Array.from(new Map(raw.map(s => [s.toLowerCase(), s])).values()):
\* one entry per lower-cased key, at the position of the key's first
\* occurrence, holding the value of its last occurrence.
LastWithKey(q, key) ==
  q[CHOOSE i \in 1..Len(q) :
      /\ Lower(q[i]) = key
      /\ \A j \in (i+1)..Len(q) : Lower(q[j]) # key]

RECURSIVE DedupFrom(_, _, _)
DedupFrom(q, i, seen) ==
  IF i > Len(q) THEN <<>>
  ELSE IF Lower(q[i]) \in seen THEN DedupFrom(q, i + 1, seen)
       ELSE <<LastWithKey(q, Lower(q[i]))>> \o DedupFrom(q, i + 1, seen \cup {Lower(q[i])})

DedupParties(q) == DedupFrom(FilterNonEmpty(q), 1, {})

(***************************************************************************)
(* extractMetaTokens: one pass over the tokens; a recognised meta token    *)
(* updates the metadata and is dropped, any other token is kept.           *)
(***************************************************************************)
\* card, account, asset, liability and counterparty hold the value's symbols,
\* lower-cased; <<>> is undefined (the patterns require a non-empty value).
MetaInit ==
  [kept |-> <<>>, paidBy |-> Undef, forPerson |-> Undef, splitType |-> "none",
   splitRatioMe |-> NoRatio, splitRatioOther |-> NoRatio,
   otherParty |-> Undef, otherPartiesRaw |-> <<>>,
   card |-> <<>>, type |-> Undef, account |-> <<>>, asset |-> <<>>,
   liability |-> <<>>, counterparty |-> <<>>, direction |-> Undef]

ParseTypes == {"expense", "income", "transfer", "investment", "liability", "receivable"}
Directions == {"i_lent", "i_borrowed", "repay", "collect"}

\* The value of a key:value token when it is one of the words in allowed.
OneOf(t, allowed) == Len(t.ps) = 1 /\ Lower(t.ps[1]) \in allowed

\* Fault: only the first component of a ratio is looked at.
ValidRatio_FirstOnly(a, b) == a > 0

ValidRatio(a, b) == a > 0 /\ b > 0

Step(i, m) == [i |-> i, m |-> m]

\* One turn of the loop: the metadata after token i and the position of the
\* next token to look at.
MetaStep(tokens, i, m) ==
    LET t == tokens[i] IN
    CASE t.k = "card" /\ t.ps # <<>> ->
           Step(i + 1, [m EXCEPT !.card = MapLower(t.ps)])
      [] t.k = "type" /\ OneOf(t, ParseTypes) ->
           Step(i + 1, [m EXCEPT !.type = Lower(t.ps[1])])
      [] t.k \in {"acct", "account"} /\ t.ps # <<>> ->
           Step(i + 1, [m EXCEPT !.account = MapLower(t.ps)])
      [] t.k \in {"asset", "inv", "investment"} /\ t.ps # <<>> ->
           Step(i + 1, [m EXCEPT !.asset = MapLower(t.ps)])
      [] t.k \in {"liab", "liability"} /\ t.ps # <<>> ->
           Step(i + 1, [m EXCEPT !.liability = MapLower(t.ps)])
      [] t.k \in {"cp", "counterparty", "person"} /\ t.ps # <<>> ->
           Step(i + 1, [m EXCEPT !.counterparty = MapLower(t.ps)])
      [] t.k \in {"dir", "direction"} /\ OneOf(t, Directions) ->
           Step(i + 1, [m EXCEPT !.direction = Lower(t.ps[1])])
      [] t.k = "paidby" /\ Lower(t.s) \in {"me", "roommate"} ->
           Step(i + 1, [m EXCEPT !.paidBy = Lower(t.s)])
      [] t.k \in {"for", "owner"} /\ t.s # "" ->
           Step(i + 1, [m EXCEPT !.forPerson = Lower(t.s)])
      [] t.k = "other" ->
           LET parts == FilterNonEmpty(MapLower(t.ps)) IN
           Step(i + 1, [m EXCEPT !.otherPartiesRaw = @ \o parts,
                       !.otherParty = IF @ # Undef THEN @
                                      ELSE IF parts # <<>> THEN parts[1] ELSE Undef])
      [] t.k = "splitkv" ->
           IF t.s = "equal" THEN Step(i + 1, [m EXCEPT !.splitType = "equal"])
           ELSE IF t.s = "ratio" /\ ValidRatio(t.a, t.b)
             THEN Step(i + 1, [m EXCEPT !.splitType = "ratio", !.splitRatioMe = t.a, !.splitRatioOther = t.b])
             ELSE Step(i + 1, [m EXCEPT !.splitType = "equal"])
      [] t.k = "split" ->
           IF i < Len(tokens) /\ tokens[i + 1].k = "ratio"
             THEN IF ValidRatio(tokens[i + 1].a, tokens[i + 1].b)
                    THEN Step(i + 2, [m EXCEPT !.splitType = "ratio",
                                     !.splitRatioMe = tokens[i + 1].a,
                                     !.splitRatioOther = tokens[i + 1].b])
                    ELSE Step(i + 2, [m EXCEPT !.splitType = "equal"])
             ELSE Step(i + 1, [m EXCEPT !.splitType = "equal"])
      [] OTHER -> Step(i + 1, [m EXCEPT !.kept = Append(@, t)])

RECURSIVE MetaLoop(_, _, _)
\* Fault: metadata tokens are recognised only in front of the first token
\* that is kept.
MetaLoop_LeadingOnly(tokens, i, m) ==
  IF i > Len(tokens) THEN m
  ELSE LET step == MetaStep(tokens, i, m)
       IN  IF Len(step.m.kept) > Len(m.kept)
             THEN [m EXCEPT !.kept = @ \o SubSeq(tokens, i, Len(tokens))]
             ELSE MetaLoop(tokens, step.i, step.m)

MetaLoop(tokens, i, m) ==
  IF i > Len(tokens) THEN m
  ELSE LET step == MetaStep(tokens, i, m)
       IN  MetaLoop(tokens, step.i, step.m)

extractMetaTokens(text) ==
  LET m == MetaLoop(text, 1, MetaInit)
  IN  [cleaned |-> m.kept, paidBy |-> m.paidBy, forPerson |-> m.forPerson,
       splitType |-> m.splitType, splitRatioMe |-> m.splitRatioMe,
       splitRatioOther |-> m.splitRatioOther, otherParty |-> m.otherParty,
       otherParties |-> DedupParties(m.otherPartiesRaw),
       card |-> m.card, type |-> m.type, account |-> m.account, asset |-> m.asset,
       liability |-> m.liability, counterparty |-> m.counterparty,
       direction |-> m.direction]

(***************************************************************************)
(* The text left after extractMetaTokens, as the regular expressions of    *)
(* parseDateToken and parseExpenseMessage see it: each kept token spelled  *)
(* out in symbols.                                                         *)
(***************************************************************************)
DigitChars == <<"0", "1", "2", "3", "4", "5", "6", "7", "8", "9">>
IsDigit(c) == \E d \in 1..Len(DigitChars) : DigitChars[d] = c
DigitVal(c) == (CHOOSE d \in 1..Len(DigitChars) : DigitChars[d] = c) - 1

\* String(n) for a number n >= 0.
RECURSIVE Digits(_)
Digits(n) ==
  IF n < Len(DigitChars) THEN <<DigitChars[n + 1]>>
  ELSE Digits(n \div Len(DigitChars)) \o <<DigitChars[(n % Len(DigitChars)) + 1]>>

Render(t) ==
  CASE t.k = "word" -> <<t.s>>
    [] t.k = "num" -> Digits(t.a)
    [] t.k = "ratio" -> Digits(t.a) \o <<"/">> \o Digits(t.b)
    [] t.k \in {"amt", "isodate", "slashdate"} -> t.ps
    [] OTHER -> <<t.k, ":">> \o (IF t.s = "" THEN <<>> ELSE <<t.s>>) \o t.ps

RECURSIVE RenderAll(_)
RenderAll(q) == IF q = <<>> THEN <<>> ELSE <<Render(Head(q))>> \o RenderAll(Tail(q))

(***************************************************************************)
(* parseDateToken: the first ISO date is the date and is removed; failing  *)
(* that, the first date written with slashes, read as day/month/year and   *)
(* passed through the Date constructor; failing that, the word yesterday,  *)
(* then the word today (every occurrence is removed).                      *)
(***************************************************************************)
\* Number(s) for a string of digits.
RECURSIVE Number(_)
Number(ps) ==
  IF ps = <<>> THEN 0
  ELSE 10 * Number(SubSeq(ps, 1, Len(ps) - 1)) + DigitVal(ps[Len(ps)])

\* The three groups of the slash pattern.
SlashGroups(ps) ==
  LET cuts == { i \in 1..Len(ps) : ps[i] = "/" }
      c1 == CHOOSE i \in cuts : \A j \in cuts : i <= j
      c2 == CHOOSE i \in cuts : \A j \in cuts : j <= i
  IN  [dd |-> Number(SubSeq(ps, 1, c1 - 1)),
       mm |-> Number(SubSeq(ps, c1 + 1, c2 - 1)),
       yyyy |-> Number(SubSeq(ps, c2 + 1, Len(ps)))]

IsLeap(y) == (y % 4 = 0 /\ y % 100 # 0) \/ y % 400 = 0

\* Days of month m (1..12) of year y.
DaysIn(y, m) ==
  IF m = 2 THEN (IF IsLeap(y) THEN 29 ELSE 28)
  ELSE IF m \in {4, 6, 9, 11} THEN 30 ELSE 31

\* Day d counted from the start of month m of year y, carried into the
\* neighbouring months when it falls outside the month.
RECURSIVE CarryDay(_, _, _)
CarryDay(y, m, d) ==
  IF d < 1
    THEN LET pm == IF m = 1 THEN 12 ELSE m - 1
             py == IF m = 1 THEN y - 1 ELSE y
         IN  CarryDay(py, pm, d + DaysIn(py, pm))
  ELSE IF d > DaysIn(y, m)
    THEN CarryDay(IF m = 12 THEN y + 1 ELSE y, IF m = 12 THEN 1 ELSE m + 1,
                  d - DaysIn(y, m))
  ELSE [y |-> y, m |-> m, d |-> d]

\* new Date(year, monthIndex, day): a year 0..99 means 1900 + year, and a
\* month or day out of range carries over.
NewDate(year, monthIndex, day) ==
  LET y0 == IF year \in 0..99 THEN 1900 + year ELSE year
  IN  CarryDay(y0 + (monthIndex \div 12), (monthIndex % 12) + 1, day)

Pad2(n) == IF n < 10 THEN "0" \o ToString(n) ELSE ToString(n)

toYmd(d) == ToString(d.y) \o "-" \o Pad2(d.m) \o "-" \o Pad2(d.d)

\* Fault: the last match is taken in place of the first.
FirstOfKind_Last(cleaned, kind) ==
  LET at == { i \in 1..Len(cleaned) : cleaned[i].k = kind }
  IN  IF at = {} THEN 0 ELSE CHOOSE x \in at : \A y \in at : y <= x

FirstOfKind(cleaned, kind) ==
  LET at == { i \in 1..Len(cleaned) : cleaned[i].k = kind }
  IN  IF at = {} THEN 0 ELSE CHOOSE x \in at : \A y \in at : x <= y

Without(cleaned, i) == SubSeq(cleaned, 1, i - 1) \o SubSeq(cleaned, i + 1, Len(cleaned))

IsWord(t, w) == t.k = "word" /\ Lower(t.s) = w

RECURSIVE DropWord(_, _)
DropWord(q, w) ==
  IF q = <<>> THEN <<>>
  ELSE IF IsWord(Head(q), w) THEN DropWord(Tail(q), w)
       ELSE <<Head(q)>> \o DropWord(Tail(q), w)

parseDateToken(cleaned) ==
  LET idx == 1..Len(cleaned)
      iso == FirstOfKind(cleaned, "isodate")
      slash == FirstOfKind(cleaned, "slashdate")
  IN  IF iso # 0
        THEN [occurredOn |-> cleaned[iso].s, cleaned |-> Without(cleaned, iso)]
      ELSE IF slash # 0
        THEN LET g == SlashGroups(cleaned[slash].ps)
             IN  [occurredOn |-> toYmd(NewDate(g.yyyy, g.mm - 1, g.dd)),
                  cleaned |-> Without(cleaned, slash)]
      ELSE IF \E i \in idx : IsWord(cleaned[i], "yesterday")
        THEN [occurredOn |-> "yesterday", cleaned |-> DropWord(cleaned, "yesterday")]
      ELSE IF \E i \in idx : IsWord(cleaned[i], "today")
        THEN [occurredOn |-> "today", cleaned |-> DropWord(cleaned, "today")]
      ELSE [occurredOn |-> Undef, cleaned |-> cleaned]

(***************************************************************************)
(* The amount pattern of parseExpenseMessage on the spelled-out text: an   *)
(* optional "$" or "usd" marker, a run of digits, any number of groups of  *)
(* a comma and three digits, and an optional point with one or two digits. *)
(* toks is the sequence of tokens, each a sequence of symbols.             *)
(***************************************************************************)
HasDigit(tok) == \E i \in 1..Len(tok) : IsDigit(tok[i])
FirstDigit(tok) == CHOOSE i \in 1..Len(tok) : IsDigit(tok[i]) /\ \A j \in 1..(i - 1) : ~IsDigit(tok[j])
DigitAt(tok, i) == i <= Len(tok) /\ IsDigit(tok[i])

\* The run of digits from position i: the position of its last digit.
RECURSIVE RunEnd(_, _)
RunEnd(tok, i) == IF DigitAt(tok, i + 1) THEN RunEnd(tok, i + 1) ELSE i

\* Fault: groups of a comma and three digits are not part of the number.
GroupsEnd_None(tok, e) == e

\* The comma groups from position e: the position they end at.
RECURSIVE GroupsEnd(_, _)
GroupsEnd(tok, e) ==
  IF /\ e + 4 <= Len(tok) /\ tok[e + 1] = ","
     /\ IsDigit(tok[e + 2]) /\ IsDigit(tok[e + 3]) /\ IsDigit(tok[e + 4])
    THEN GroupsEnd(tok, e + 4)
    ELSE e

\* The optional fraction from position e: the number of digits taken.
FracLen(tok, e) ==
  IF e + 2 <= Len(tok) /\ tok[e + 1] = "." /\ IsDigit(tok[e + 2])
    THEN IF DigitAt(tok, e + 3) THEN 2 ELSE 1
    ELSE 0

\* Number(...) of the digits of tok[i..e], the commas removed.
RECURSIVE IntOf(_, _, _, _)
IntOf(tok, i, e, acc) ==
  IF i > e THEN acc
  ELSE IF IsDigit(tok[i]) THEN IntOf(tok, i + 1, e, acc * Len(DigitChars) + DigitVal(tok[i]))
       ELSE IntOf(tok, i + 1, e, acc)

RECURSIVE Pow10(_)
Pow10(k) == IF k = 0 THEN 1 ELSE Len(DigitChars) * Pow10(k - 1)

NonEmpty(tok) == IF tok = <<>> THEN <<>> ELSE <<tok>>

NoMatch == [found |-> FALSE, amount |-> NoNum, before |-> <<>>, after |-> <<>>]

MatchAmount(toks) ==
  LET hits == { j \in 1..Len(toks) : HasDigit(toks[j]) }
  IN  IF hits = {} THEN NoMatch
      ELSE
        LET j == CHOOSE x \in hits : \A y \in hits : x <= y
            tok == toks[j]
            i == FirstDigit(tok)
            e == GroupsEnd(tok, RunEnd(tok, i))
            f == FracLen(tok, e)
            last == IF f = 0 THEN e ELSE e + 1 + f
            value == Rat(IntOf(tok, i, e, 0) * Pow10(f) + IntOf(tok, e + 2, e + 1 + f, 0),
                         Pow10(f))
            \* the optional marker in front of the digits
            inTok == i > 1 /\ (tok[i - 1] = "$" \/ Lower(tok[i - 1]) = "usd")
            inPrev == /\ i = 1 /\ j > 1
                      /\ Lower(toks[j - 1][Len(toks[j - 1])]) = "usd"
            before ==
              IF inTok THEN SubSeq(toks, 1, j - 1) \o NonEmpty(SubSeq(tok, 1, i - 2))
              ELSE IF inPrev
                THEN SubSeq(toks, 1, j - 2)
                       \o NonEmpty(SubSeq(toks[j - 1], 1, Len(toks[j - 1]) - 1))
              ELSE SubSeq(toks, 1, j - 1) \o NonEmpty(SubSeq(tok, 1, i - 1))
            after == NonEmpty(SubSeq(tok, last + 1, Len(tok)))
                       \o SubSeq(toks, j + 1, Len(toks))
        IN  [found |-> TRUE, amount |-> value, before |-> before, after |-> after]

(***************************************************************************)
(* Category and note.                                                      *)
(***************************************************************************)
StopWords == {"spent", "spend", "paid", "pay", "for", "on", "rs", "₹", "inr"}

\* STOPWORD.test(t)
IsStop(tok) ==
  \/ Len(tok) = 1 /\ Lower(tok[1]) \in StopWords
  \/ Len(tok) = 2 /\ Lower(tok[1]) = "rs" /\ tok[2] = "."

RECURSIVE FilterStops(_)
FilterStops(q) ==
  IF q = <<>> THEN <<>>
  ELSE IF IsStop(Head(q)) THEN FilterStops(Tail(q))
       ELSE <<Head(q)>> \o FilterStops(Tail(q))

CATEGORY_WORDS ==
  {"food", "dining", "restaurant", "grocery", "rent", "housing", "mortgage",
   "travel", "transport", "transit", "cab", "uber", "lyft", "ola", "taxi",
   "flight", "hotel", "parking", "toll", "fuel", "gas", "clipper", "bart",
   "muni", "caltrain", "bills", "utilities", "electric", "water", "internet",
   "phone", "subscription", "subscriptions", "netflix", "spotify", "youtube",
   "apple", "shopping", "walmart", "amazon", "dollartree", "dollar-tree",
   "dollar_tree", "dollar", "entertainment", "movies", "movie", "comedy",
   "show", "shows", "health", "medical", "pharmacy", "education", "gifts"}

\* Fault: a synonym is not replaced by its canonical name.
normalizeCategory_Identity(c) == c

normalizeCategory(c) ==
  CASE c \in {"walmart", "amazon", "dollartree", "dollar-tree", "dollar_tree"} -> "shopping"
    [] c = "groceries" -> "grocery"
    [] c = "mortgage" -> "housing"
    [] c \in {"cab", "uber", "lyft", "ola", "taxi"} -> "transport"
    [] c \in {"clipper", "bart", "muni", "caltrain"} -> "travel"
    [] c = "restaurant" -> "dining"
    [] c \in {"movie", "movies", "comedy", "show", "shows"} -> "entertainment"
    [] c \in {"electric", "water", "internet", "phone"} -> "utilities"
    [] c \in {"subscription", "subscriptions", "netflix", "spotify", "youtube"} -> "subscriptions"
    [] OTHER -> c

\* filtered[0].toLowerCase(), as a string: a one-symbol token is its symbol,
\* and "dollar-tree" is the one spelling with a hyphen the vocabulary has.
FirstWord(tok) ==
  IF Len(tok) = 1 THEN Lower(tok[1])
  ELSE IF MapLower(tok) = <<"dollar", "-", "tree">> THEN "dollar-tree"
  ELSE ""

\* category and note from the text before and after the amount.  A note is
\* the sequence of its tokens; <<>> is undefined.
CategoryAndNote(before, after) ==
  LET candidate == IF FilterStops(before) = <<>> THEN after ELSE before \o after
      filtered == FilterStops(candidate)
  IN  IF filtered = <<>> THEN [category |-> Undef, note |-> <<>>]
      ELSE IF FirstWord(filtered[1]) \in CATEGORY_WORDS
        THEN [category |-> normalizeCategory(FirstWord(filtered[1])), note |-> Tail(filtered)]
        ELSE [category |-> Undef, note |-> filtered]

(***************************************************************************)
(* parseExpenseMessage: the amount is the first number in the text left    *)
(* after the meta tokens and the date are removed; no number, or a number  *)
(* that is not positive, gives null (ok = FALSE).                          *)
(***************************************************************************)
NullParsed ==
  [ok |-> FALSE, amount |-> NoNum, myAmount |-> NoNum, currency |-> Undef,
   paidBy |-> Undef, forPerson |-> Undef, splitType |-> "none",
   splitRatioMe |-> NoRatio, splitRatioOther |-> NoRatio,
   otherParty |-> Undef, otherParties |-> <<>>,
   occurredOn |-> Undef, category |-> Undef, note |-> <<>>,
   card |-> <<>>, type |-> Undef, account |-> <<>>, asset |-> <<>>,
   liability |-> <<>>, counterparty |-> <<>>, direction |-> Undef]

ParsedFrom(meta, date, match, cn) ==
  IF date.cleaned = <<>> \/ ~match.found \/ ~RPos(match.amount) THEN NullParsed
  ELSE [ok |-> TRUE, amount |-> match.amount, myAmount |-> NoNum, currency |-> "USD",
        paidBy |-> meta.paidBy, forPerson |-> meta.forPerson,
        splitType |-> meta.splitType,
        splitRatioMe |-> meta.splitRatioMe, splitRatioOther |-> meta.splitRatioOther,
        otherParty |-> meta.otherParty, otherParties |-> meta.otherParties,
        occurredOn |-> date.occurredOn, category |-> cn.category, note |-> cn.note,
        card |-> meta.card,
        type |-> IF meta.type # Undef THEN meta.type ELSE "expense",
        account |-> meta.account, asset |-> meta.asset, liability |-> meta.liability,
        counterparty |-> meta.counterparty, direction |-> meta.direction]

\* The stages in the order of the code: metadata tokens, date, amount, then
\* category and note from the text around the amount.
parseExpenseMessage(text) ==
  LET AfterMatch(meta, date, match) ==
        ParsedFrom(meta, date, match, CategoryAndNote(match.before, match.after))
      AfterDate(meta, date) == AfterMatch(meta, date, MatchAmount(RenderAll(date.cleaned)))
      AfterMeta(meta) == AfterDate(meta, parseDateToken(meta.cleaned))
  IN  AfterMeta(extractMetaTokens(text))

(***************************************************************************)
(* POST /api/ingest-message: allocation.                                   *)
(***************************************************************************)
\* others (ingest, "my share" block): the named parties, no default.
IngestOthers(parsed) ==
  IF Len(parsed.otherParties) > 0 THEN parsed.otherParties
  ELSE IF parsed.otherParty # Undef THEN <<parsed.otherParty>> ELSE <<>>

\* Fault: the share is divided even when no split is asked for.
IngestMyShare_AlwaysSplit(parsed) ==
  LET nOthers == IF Len(IngestOthers(parsed)) = 0 THEN 1 ELSE Len(IngestOthers(parsed))
  IN  IF /\ parsed.splitType = "ratio"
         /\ parsed.splitRatioMe > 0
         /\ parsed.splitRatioOther > 0
        THEN RDivInt(RMulInt(parsed.amount, parsed.splitRatioMe),
                     parsed.splitRatioMe + parsed.splitRatioOther)
        ELSE RDivInt(parsed.amount, 1 + nOthers)

\* parsed.myAmount as computed by the "my share" block.
IngestMyShare(parsed) ==
  LET nOthers == IF Len(IngestOthers(parsed)) = 0 THEN 1 ELSE Len(IngestOthers(parsed))
  IN  IF parsed.splitType = "none" THEN parsed.amount
      ELSE IF /\ parsed.splitType = "ratio"
              /\ parsed.splitRatioMe > 0
              /\ parsed.splitRatioOther > 0
        THEN RDivInt(RMulInt(parsed.amount, parsed.splitRatioMe),
                     parsed.splitRatioMe + parsed.splitRatioOther)
        ELSE RDivInt(parsed.amount, 1 + nOthers)

\* Fault: the for: override leaves my share as the split computed it.
IngestForPerson_KeepsShare(parsed) ==
  IF parsed.forPerson = Undef THEN parsed
  ELSE [parsed EXCEPT
          !.otherParty = IF @ # Undef THEN @ ELSE parsed.forPerson,
          !.otherParties = IF Len(@) > 0 THEN @ ELSE <<parsed.forPerson>>,
          !.splitType = "none"]

\* if (parsed.forPerson) { ... }: the expense is fully for someone else.
IngestForPerson(parsed) ==
  IF parsed.forPerson = Undef THEN parsed
  ELSE [parsed EXCEPT
          !.otherParty = IF @ # Undef THEN @ ELSE parsed.forPerson,
          !.otherParties = IF Len(@) > 0 THEN @ ELSE <<parsed.forPerson>>,
          !.splitType = "none",
          !.myAmount = Zero]

\* parsed as handed to insertExpense.
IngestAllocate(parsed) ==
  IngestForPerson([parsed EXCEPT !.myAmount = IngestMyShare(parsed)])

\* Fault: the default party is another one.
IngestOtherParties_Kevin(parsed) ==
  IF Len(parsed.otherParties) > 0 THEN parsed.otherParties
  ELSE IF parsed.otherParty # Undef THEN <<parsed.otherParty>> ELSE <<"kevin">>

\* otherParties (ingest, reimbursement block): the named parties or ['vyas'].
IngestOtherParties(parsed) ==
  IF Len(parsed.otherParties) > 0 THEN parsed.otherParties
  ELSE IF parsed.otherParty # Undef THEN <<parsed.otherParty>> ELSE <<"vyas">>

Debt(p, dir, amt) == [otherParty |-> p, direction |-> dir, amount |-> amt]

\* Fault: only the first party is charged.
DebtPerParty_FirstOnly(parties, dir, amt) ==
  IF parties = <<>> THEN <<>> ELSE <<Debt(Head(parties), dir, amt)>>

RECURSIVE DebtPerParty(_, _, _)
DebtPerParty(parties, dir, amt) ==
  IF parties = <<>> THEN <<>>
  ELSE <<Debt(Head(parties), dir, amt)>> \o DebtPerParty(Tail(parties), dir, amt)

\* The insertReimbursement calls of the ingest handler, in order, for the
\* allocated parsed message and the amount of the inserted expense.
IngestPeerDebts(parsed, amount) ==
  LET otherParties == IngestOtherParties(parsed)
      otherParty == IF Len(otherParties) > 0 THEN otherParties[1] ELSE "vyas"
      paidBy == IF parsed.paidBy # Undef THEN parsed.paidBy ELSE "me"
      nOthers == Len(otherParties)
      denom == 1 + (IF nOthers = 0 THEN 1 ELSE nOthers)
      isRatio == /\ parsed.splitType = "ratio"
                 /\ parsed.splitRatioMe > 0
                 /\ parsed.splitRatioOther > 0
      myShare == IF isRatio
                   THEN RDivInt(RMulInt(amount, parsed.splitRatioMe),
                                parsed.splitRatioMe + parsed.splitRatioOther)
                   ELSE RDivInt(amount, denom)
      othersTotal == RSub(amount, myShare)
      eachOtherShare == IF nOthers > 0 THEN RDivInt(othersTotal, nOthers) ELSE othersTotal
  IN  IF parsed.forPerson # Undef
        THEN LET p == IF Len(otherParties) > 0 THEN otherParties[1] ELSE parsed.forPerson
             IN  IF paidBy = "me" THEN <<Debt(p, "they_owe_me", amount)>>
                 ELSE <<Debt(p, "i_owe_them", amount)>>
      ELSE IF parsed.splitType # "none"
        THEN IF paidBy = "me" THEN DebtPerParty(otherParties, "they_owe_me", eachOtherShare)
             ELSE <<Debt(otherParty, "i_owe_them", myShare)>>
      ELSE <<>>

(***************************************************************************)
(* PUT /api/expenses/:id: the same allocation, written out again in the    *)
(* edit handler.                                                           *)
(***************************************************************************)
EditOthers(parsed) ==
  IF Len(parsed.otherParties) > 0 THEN parsed.otherParties
  ELSE IF parsed.otherParty # Undef THEN <<parsed.otherParty>> ELSE <<>>

\* Fault: a ratio split gives me the other side's part.
EditMyShare_Swapped(parsed) ==
  LET nOthers == IF Len(EditOthers(parsed)) = 0 THEN 1 ELSE Len(EditOthers(parsed))
  IN  IF parsed.splitType = "none" THEN parsed.amount
      ELSE IF /\ parsed.splitType = "ratio"
              /\ parsed.splitRatioMe > 0
              /\ parsed.splitRatioOther > 0
        THEN RDivInt(RMulInt(parsed.amount, parsed.splitRatioOther),
                     parsed.splitRatioMe + parsed.splitRatioOther)
        ELSE RDivInt(parsed.amount, 1 + nOthers)

EditMyShare(parsed) ==
  LET nOthers == IF Len(EditOthers(parsed)) = 0 THEN 1 ELSE Len(EditOthers(parsed))
  IN  IF parsed.splitType = "none" THEN parsed.amount
      ELSE IF /\ parsed.splitType = "ratio"
              /\ parsed.splitRatioMe > 0
              /\ parsed.splitRatioOther > 0
        THEN RDivInt(RMulInt(parsed.amount, parsed.splitRatioMe),
                     parsed.splitRatioMe + parsed.splitRatioOther)
        ELSE RDivInt(parsed.amount, 1 + nOthers)

EditForPerson(parsed) ==
  IF parsed.forPerson = Undef THEN parsed
  ELSE [parsed EXCEPT
          !.otherParty = IF @ # Undef THEN @ ELSE parsed.forPerson,
          !.otherParties = IF Len(@) > 0 THEN @ ELSE <<parsed.forPerson>>,
          !.splitType = "none",
          !.myAmount = Zero]

EditAllocate(parsed) ==
  EditForPerson([parsed EXCEPT !.myAmount = EditMyShare(parsed)])

\* Fault: the edit handler charges the first named party only.
EditOtherParties_FirstOnly(parsed) ==
  IF Len(parsed.otherParties) > 0 THEN <<parsed.otherParties[1]>>
  ELSE IF parsed.otherParty # Undef THEN <<parsed.otherParty>> ELSE <<"vyas">>

EditOtherParties(parsed) ==
  IF Len(parsed.otherParties) > 0 THEN parsed.otherParties
  ELSE IF parsed.otherParty # Undef THEN <<parsed.otherParty>> ELSE <<"vyas">>

\* The insertReimbursement calls of the edit handler, in order.
EditPeerDebts(parsed, amount) ==
  LET otherParties == EditOtherParties(parsed)
      otherParty == IF Len(otherParties) > 0 THEN otherParties[1] ELSE "vyas"
      paidBy == IF parsed.paidBy # Undef THEN parsed.paidBy ELSE "me"
      nOthers == Len(otherParties)
      denom == 1 + (IF nOthers = 0 THEN 1 ELSE nOthers)
      isRatio == /\ parsed.splitType = "ratio"
                 /\ parsed.splitRatioMe > 0
                 /\ parsed.splitRatioOther > 0
      myShare == IF isRatio
                   THEN RDivInt(RMulInt(amount, parsed.splitRatioMe),
                                parsed.splitRatioMe + parsed.splitRatioOther)
                   ELSE RDivInt(amount, denom)
      othersTotal == RSub(amount, myShare)
      eachOtherShare == IF nOthers > 0 THEN RDivInt(othersTotal, nOthers) ELSE othersTotal
  IN  IF parsed.forPerson # Undef
        THEN LET p == IF Len(otherParties) > 0 THEN otherParties[1] ELSE parsed.forPerson
             IN  IF paidBy = "me" THEN <<Debt(p, "they_owe_me", amount)>>
                 ELSE <<Debt(p, "i_owe_them", amount)>>
      ELSE IF parsed.splitType # "none"
        THEN IF paidBy = "me" THEN DebtPerParty(otherParties, "they_owe_me", eachOtherShare)
             ELSE <<Debt(otherParty, "i_owe_them", myShare)>>
      ELSE <<>>

(***************************************************************************)
(* The tables.  expenses maps the id of each existing expense to its row;  *)
(* reimbursements is the set of reimbursement rows.  NULL is Undef         *)
(* (text), NoRatio (split ratio) or NoNum (amount).                        *)
(***************************************************************************)
CURRENCY == "USD"
NoSuchId == 0

VARIABLES expenses, reimbursements, nextExpenseId, nextReimbursementId, reqs, pool, ledger

vars == <<expenses, reimbursements, nextExpenseId, nextReimbursementId, reqs, pool, ledger>>
db == <<expenses, reimbursements, nextExpenseId, nextReimbursementId>>

Parties == {"vyas", "kevin", "roommate"}

\* ensureSchema, on the expenses table: backfill my_amount, rename the
\* legacy party name.
EnsureSchemaExpenses(ex) ==
  [id \in DOMAIN ex |->
     [ex[id] EXCEPT !.myAmount = IF @ = NoNum THEN ex[id].amount ELSE @,
                    !.otherParty = IF @ = "roommate" THEN "vyas" ELSE @]]

\* ensureSchema, on the reimbursements table: rename the legacy party name.
EnsureSchemaReimbursements(rs) ==
  { [r EXCEPT !.otherParty = IF @ = "roommate" THEN "vyas" ELSE @] : r \in rs }

\* insertExpense: the row written (and returned) for a parsed message.
insertExpense(id, parsed, defaultCurrency) ==
  [id |-> id,
   amount |-> parsed.amount,
   currency |-> IF parsed.currency # Undef THEN parsed.currency ELSE defaultCurrency,
   paidBy |-> IF parsed.paidBy # Undef THEN parsed.paidBy ELSE "me",
   splitType |-> parsed.splitType,
   splitRatioMe |-> parsed.splitRatioMe,
   splitRatioOther |-> parsed.splitRatioOther,
   otherParty |-> parsed.otherParty,
   myAmount |-> IF parsed.myAmount # NoNum THEN parsed.myAmount ELSE parsed.amount,
   category |-> parsed.category, note |-> parsed.note, card |-> parsed.card]

NoRow == insertExpense(NoSuchId, NullParsed, Undef)

\* updateExpenseById: every column is COALESCE(argument, old value); the
\* arguments are those the edit handler passes.
Coalesce(v, null, old) == IF v = null THEN old ELSE v

\* The arguments the edit handler passes to updateExpenseById.
EditUpdateArgs(parsed) ==
  LET otherParties == EditOtherParties(parsed) IN
  [amount |-> parsed.amount,
   myAmount |-> IF parsed.myAmount # NoNum THEN parsed.myAmount ELSE parsed.amount,
   paidBy |-> IF parsed.paidBy # Undef THEN parsed.paidBy ELSE "me",
   splitType |-> parsed.splitType,
   splitRatioMe |-> parsed.splitRatioMe,
   splitRatioOther |-> parsed.splitRatioOther,
   otherParty |-> IF Len(otherParties) > 0 THEN otherParties[1] ELSE "vyas",
   category |-> parsed.category, note |-> parsed.note, card |-> parsed.card]

updateExpenseById(old, args) ==
  [id |-> old.id,
   amount |-> Coalesce(args.amount, NoNum, old.amount),
   currency |-> old.currency,
   paidBy |-> Coalesce(args.paidBy, Undef, old.paidBy),
   splitType |-> Coalesce(args.splitType, Undef, old.splitType),
   splitRatioMe |-> Coalesce(args.splitRatioMe, NoRatio, old.splitRatioMe),
   splitRatioOther |-> Coalesce(args.splitRatioOther, NoRatio, old.splitRatioOther),
   otherParty |-> Coalesce(args.otherParty, Undef, old.otherParty),
   myAmount |-> Coalesce(args.myAmount, NoNum, old.myAmount),
   category |-> Coalesce(args.category, Undef, old.category),
   note |-> Coalesce(args.note, <<>>, old.note),
   card |-> Coalesce(args.card, <<>>, old.card)]

\* insertReimbursement: the row written for one peer debt of an expense.
insertReimbursement(id, expense, debt) ==
  [id |-> id, expenseId |-> expense.id, otherParty |-> debt.otherParty,
   direction |-> debt.direction, amount |-> debt.amount, currency |-> expense.currency]

\* Fault: the DELETE statement removes nothing.
DeleteReimbursementsOf_Nothing(rs, id) == rs

\* DELETE FROM reimbursements WHERE expense_id = id
DeleteReimbursementsOf(rs, id) == { r \in rs : r.expenseId # id }

RECURSIVE SumAmounts(_)
SumAmounts(rows) ==
  IF rows = {} THEN Zero
  ELSE LET r == CHOOSE x \in rows : TRUE
       IN  RAdd(r.amount, SumAmounts(rows \ {r}))

\* Fault: the otherParty argument is not put in the WHERE clause.
getReimbursementBalance_AnyParty(rs, otherParty, currency) ==
  LET rows == { r \in rs : currency # Undef => r.currency = currency }
      theyOweMe == SumAmounts({ r \in rows : r.direction = "they_owe_me" })
      iOweThem == SumAmounts({ r \in rows : r.direction = "i_owe_them" })
  IN  [theyOweMe |-> theyOweMe, iOweThem |-> iOweThem, net |-> RSub(theyOweMe, iOweThem)]

\* Fault: the net is taken the other way round.
getReimbursementBalance_Reversed(rs, otherParty, currency) ==
  LET rows == { r \in rs : /\ (otherParty # Undef => r.otherParty = otherParty)
                           /\ (currency # Undef => r.currency = currency) }
      theyOweMe == SumAmounts({ r \in rows : r.direction = "they_owe_me" })
      iOweThem == SumAmounts({ r \in rows : r.direction = "i_owe_them" })
  IN  [theyOweMe |-> theyOweMe, iOweThem |-> iOweThem, net |-> RSub(iOweThem, theyOweMe)]

\* getReimbursementBalance's query and arithmetic, on the table as it is
\* after the function's ensureSchema call.
getReimbursementBalance(rs, otherParty, currency) ==
  LET rows == { r \in rs : /\ (otherParty # Undef => r.otherParty = otherParty)
                           /\ (currency # Undef => r.currency = currency) }
      theyOweMe == SumAmounts({ r \in rows : r.direction = "they_owe_me" })
      iOweThem == SumAmounts({ r \in rows : r.direction = "i_owe_them" })
  IN  [theyOweMe |-> theyOweMe, iOweThem |-> iOweThem, net |-> RSub(theyOweMe, iOweThem)]

NoBalance == [theyOweMe |-> NoNum, iOweThem |-> NoNum, net |-> NoNum]

\* What a read through the repository returns: the rows after ensureSchema.
ReadReimbursements == EnsureSchemaReimbursements(reimbursements)
ReadExpenses == EnsureSchemaExpenses(expenses)

NetOf(p) == getReimbursementBalance(ReadReimbursements, p, CURRENCY).net

(***************************************************************************)
(* The ledger_entries table: the sequence of the rows inserted, in order.  *)
(***************************************************************************)
NoEntry ==
  [id |-> NoSuchId, occurredOn |-> Undef, type |-> Undef, amount |-> NoNum,
   currency |-> Undef, direction |-> Undef, counterparty |-> <<>>,
   account |-> <<>>, asset |-> <<>>, liability |-> <<>>, note |-> <<>>]

\* insertLedgerEntry: the row written (and returned).
insertLedgerEntry(id, args) ==
  [id |-> id, occurredOn |-> args.occurredOn, type |-> args.type,
   amount |-> args.amount, currency |-> args.currency,
   direction |-> args.direction, counterparty |-> args.counterparty,
   account |-> args.account, asset |-> args.asset, liability |-> args.liability,
   note |-> args.note]

\* Fault: a repayment is counted against the counterparty.
Signed_RepayNegative(e) ==
  CASE e.type = "receivable" /\ e.direction = "i_lent" -> e.amount
    [] e.type = "receivable" /\ e.direction = "collect" -> RSub(Zero, e.amount)
    [] e.type = "receivable" /\ e.direction = "i_borrowed" -> RSub(Zero, e.amount)
    [] e.type = "receivable" /\ e.direction = "repay" -> RSub(Zero, e.amount)
    [] OTHER -> Zero

\* The CASE expression of getReceivableBalances' query: the signed amount of
\* one row.
Signed(e) ==
  CASE e.type = "receivable" /\ e.direction = "i_lent" -> e.amount
    [] e.type = "receivable" /\ e.direction = "collect" -> RSub(Zero, e.amount)
    [] e.type = "receivable" /\ e.direction = "i_borrowed" -> RSub(Zero, e.amount)
    [] e.type = "receivable" /\ e.direction = "repay" -> e.amount
    [] OTHER -> Zero

\* The rows the query's WHERE clause selects.
ReceivableRows(entries, currency) ==
  { i \in 1..Len(entries) :
      /\ entries[i].currency = currency
      /\ entries[i].type = "receivable"
      /\ entries[i].counterparty # <<>> }

RECURSIVE SumSigned(_, _)
SumSigned(entries, rows) ==
  IF rows = {} THEN Zero
  ELSE LET i == CHOOSE x \in rows : TRUE
       IN  RAdd(Signed(entries[i]), SumSigned(entries, rows \ {i}))

\* getReceivableBalances: one row per counterparty (the rows come ordered by
\* counterparty; the order is not modelled).
getReceivableBalances(entries, currency) ==
  LET rows == ReceivableRows(entries, currency)
  IN  { LET net == SumSigned(entries, { i \in rows : entries[i].counterparty = cp })
        IN  [counterparty |-> cp, net |-> net,
             theyOwe |-> IF RPos(net) THEN net ELSE Zero,
             iOwe |-> IF RLt(net, Zero) THEN RSub(Zero, net) ELSE Zero]
        : cp \in { entries[i].counterparty : i \in rows } }

(***************************************************************************)
(* Requests.  reqs is the log of the requests received so far, each with   *)
(* the handler's position (pc), its local variables and its response.      *)
(* A request that has responded has pc = "done".                           *)
(*   id        the expense the request targets (edit, delete) or created   *)
(*             (ingest); NoSuchId is an id that names no expense           *)
(*   row       the expense row returned by insertExpense/updateExpenseById *)
(*   todo      the insertReimbursement calls still to make                 *)
(* History kept for the properties:                                        *)
(*   created   the reimbursement rows this request has inserted            *)
(*   before    the net balance of each party when the request arrived      *)
(*   result    myAmount and peer debts of the expense, as a read returns   *)
(*             them, when the request responded                            *)
(*   disturbed another request on the same expense has been in flight      *)
(*             with this one, or arrived after it                          *)
(*   replaced  (edit) the peer debts the expense had when the edit         *)
(*             deleted them                                                *)
(*   midEdit   (balance) edits that had deleted an expense's peer debts    *)
(*             and not yet inserted all the new ones when the read ran,    *)
(*             the expense then showing other peer debts than before       *)
(***************************************************************************)
DebtOf(r) == Debt(r.otherParty, r.direction, r.amount)

\* The multiset of (otherParty, direction, amount) of a set of rows.
DebtBag(rows) ==
  [d \in { DebtOf(r) : r \in rows } |-> Cardinality({ r \in rows : DebtOf(r) = d })]

SeqDebtBag(q) ==
  [d \in SeqRange(q) |-> Cardinality({ i \in 1..Len(q) : q[i] = d })]

NoResult == [found |-> FALSE, myAmount |-> NoNum, debts |-> DebtBag({})]

\* myAmount and peer debts of expense id as a read of tables ex, rs returns them.
ResultIn(ex, rs, id) ==
  IF id \in DOMAIN ex
    THEN [found |-> TRUE, myAmount |-> EnsureSchemaExpenses(ex)[id].myAmount,
          debts |-> DebtBag({ r \in EnsureSchemaReimbursements(rs) : r.expenseId = id })]
    ELSE NoResult

ResultOf(id) == ResultIn(expenses, reimbursements, id)

Balances == [p \in Parties |-> NetOf(p)]
NoBalances == [p \in Parties |-> NoNum]

NoTotals ==
  [incomeTotal |-> NoNum, savingsTotal |-> NoNum, investmentTotal |-> NoNum,
   liabilityTotal |-> NoNum]

NewReq(kind, text, id) ==
  [kind |-> kind, pc |-> "done", text |-> text, id |-> id, parsed |-> NullParsed,
   row |-> NoRow, todo |-> <<>>, status |-> 0, error |-> "",
   party |-> Undef, balance |-> NoBalance, entry |-> NoEntry, receivables |-> {},
   currency |-> Undef, allTime |-> NoNum, totals |-> NoTotals, netWorth |-> NoNum,
   created |-> <<>>, before |-> Balances, result |-> NoResult,
   replaced |-> DebtBag({}), disturbed |-> FALSE, overlaps |-> {}, midEdit |-> {},
   age |-> 0, timedOut |-> FALSE]

InFlight == { i \in 1..Len(reqs) : reqs[i].pc # "done" }

\* The log after a request on expense id arrives: it disturbs, and is
\* disturbed by, the requests on the same expense.
Arrive(r) ==
  LET same == { i \in 1..Len(reqs) : r.id # NoSuchId /\ reqs[i].id = r.id }
      old == [i \in 1..Len(reqs) |->
                IF i \in same THEN [reqs[i] EXCEPT !.disturbed = TRUE] ELSE reqs[i]]
  IN  Append(old, [r EXCEPT !.disturbed = (same \cap InFlight # {}),
                            !.overlaps = same \cap InFlight])

CanArrive(cap) == Len(reqs) < MaxOps /\ Cardinality(InFlight) < cap

(***************************************************************************)
(* The request timeout guard: app.use before every /api and /webhook       *)
(* route.  It sets a timer of REQUEST_TIMEOUT_MS when the request arrives  *)
(* and clears it when the response finishes.  Time is counted in ticks:    *)
(* age is the time since the guard ran, and the timer is due at            *)
(* TimeoutTicks.  timedOut records that the timer's callback sent the 504. *)
(* A handler's last step (pc = "done") is its call of res.json.            *)
(***************************************************************************)
TimeoutTicks == 2

\* res.headersSent: the handler's response, or the 504, has been sent.
headersSent(r) == r.pc = "done" \/ r.timedOut

\* The timer is set and has neither fired nor been cleared.
TimerPending(r) == ~headersSent(r)

\* Time passes for every request whose timer is pending; a due timer runs
\* before time passes on.
Tick ==
  /\ \E i \in 1..Len(reqs) : TimerPending(reqs[i])
  /\ \A i \in 1..Len(reqs) : TimerPending(reqs[i]) => reqs[i].age < TimeoutTicks
  /\ reqs' = [i \in 1..Len(reqs) |->
                IF TimerPending(reqs[i]) THEN [reqs[i] EXCEPT !.age = @ + 1]
                ELSE reqs[i]]
  /\ UNCHANGED <<db, pool, ledger>>

\* The timer's callback: if (res.headersSent) return; res.status(504).json.
\* The handler is not told: it goes on from its await.
TimeoutFire(i) ==
  /\ i \in 1..Len(reqs)
  /\ reqs[i].age = TimeoutTicks
  /\ TimerPending(reqs[i])
  /\ reqs' = [reqs EXCEPT ![i] = [@ EXCEPT !.timedOut = TRUE]]
  /\ UNCHANGED <<db, pool, ledger>>

(***************************************************************************)
(* POST /api/ingest-message                                                *)
(***************************************************************************)
\* The request arrives: parse, allocate, await insertExpense.
IngestMessage(cap, text) ==
  /\ CanArrive(cap)
  /\ text \in pool
  /\ \E parsed0 \in {parseExpenseMessage(text)} :
     IF ~parsed0.ok
       THEN /\ reqs' = Arrive([NewReq("ingest", text, NoSuchId) EXCEPT
                                 !.status = 200,
                                 !.error = "Could not parse amount from message"])
            /\ UNCHANGED db
       ELSE LET parsed == IngestAllocate(parsed0)
                expense == insertExpense(nextExpenseId, parsed, CURRENCY)
                todo == IngestPeerDebts(parsed, expense.amount)
            IN  /\ expenses' = EnsureSchemaExpenses(expenses) @@ (expense.id :> expense)
                /\ reimbursements' = EnsureSchemaReimbursements(reimbursements)
                /\ nextExpenseId' = nextExpenseId + 1
                /\ UNCHANGED nextReimbursementId
                /\ reqs' = Arrive([NewReq("ingest", text, expense.id) EXCEPT
                                     !.pc = IF todo = <<>> THEN "sumForRange"
                                            ELSE "insertReimbursement",
                                     !.parsed = parsed, !.row = expense, !.todo = todo])
  /\ UNCHANGED <<pool, ledger>>

\* await insertReimbursement(...): the next peer debt of the ingested expense.
IngestInsertReimbursement(i) ==
  /\ i \in 1..Len(reqs)
  /\ reqs[i].kind = "ingest"
  /\ reqs[i].pc = "insertReimbursement"
  /\ LET r == reqs[i]
         row == insertReimbursement(nextReimbursementId, r.row, Head(r.todo))
     IN  /\ reimbursements' = EnsureSchemaReimbursements(reimbursements) \cup {row}
         /\ expenses' = EnsureSchemaExpenses(expenses)
         /\ nextReimbursementId' = nextReimbursementId + 1
         /\ reqs' = [reqs EXCEPT ![i] =
              [r EXCEPT !.todo = Tail(@),
                        !.created = Append(@, row),
                        !.pc = IF Tail(r.todo) = <<>> THEN "sumForRange" ELSE @]]
  /\ UNCHANGED <<nextExpenseId, pool, ledger>>

\* await sumForRange(...) twice, then the acknowledgement is sent.
IngestAck(i) ==
  /\ i \in 1..Len(reqs)
  /\ reqs[i].kind = "ingest"
  /\ reqs[i].pc = "sumForRange"
  /\ expenses' = EnsureSchemaExpenses(expenses)
  /\ reimbursements' = EnsureSchemaReimbursements(reimbursements)
  /\ reqs' = [reqs EXCEPT ![i] =
       [@ EXCEPT !.pc = "done", !.status = 200, !.result = ResultOf(reqs[i].id)]]
  /\ UNCHANGED <<nextExpenseId, nextReimbursementId, pool, ledger>>

(***************************************************************************)
(* PUT /api/expenses/:id                                                   *)
(***************************************************************************)
\* The request arrives: parse, allocate, await updateExpenseById.
EditExpense(cap, id, text) ==
  /\ CanArrive(cap)
  /\ text \in pool
  /\ id \in 0..(nextExpenseId - 1)
  /\ \E parsed0 \in {parseExpenseMessage(text)} :
     IF ~parsed0.ok
       THEN /\ reqs' = Arrive([NewReq("edit", text, id) EXCEPT
                                 !.status = 400,
                                 !.error = "Could not parse amount from message"])
            /\ UNCHANGED db
       ELSE LET parsed == EditAllocate(parsed0)
                ex == EnsureSchemaExpenses(expenses)
            IN  /\ reimbursements' = EnsureSchemaReimbursements(reimbursements)
                /\ UNCHANGED <<nextExpenseId, nextReimbursementId>>
                /\ IF id \notin DOMAIN ex
                     THEN /\ expenses' = ex
                          /\ reqs' = Arrive([NewReq("edit", text, id) EXCEPT
                                               !.parsed = parsed,
                                               !.status = 404, !.error = "Not found"])
                     ELSE LET updated == updateExpenseById(ex[id], EditUpdateArgs(parsed))
                          IN  /\ expenses' = [ex EXCEPT ![id] = updated]
                              /\ reqs' = Arrive([NewReq("edit", text, id) EXCEPT
                                                   !.pc = "deleteReimbursements",
                                                   !.parsed = parsed, !.row = updated])
  /\ UNCHANGED <<pool, ledger>>

\* await getPool().query(`DELETE FROM reimbursements WHERE expense_id = $1`)
EditDeleteReimbursements(i) ==
  /\ i \in 1..Len(reqs)
  /\ reqs[i].kind = "edit"
  /\ reqs[i].pc = "deleteReimbursements"
  /\ LET r == reqs[i]
         todo == EditPeerDebts(r.parsed, r.row.amount)
         rs == DeleteReimbursementsOf(reimbursements, r.id)
     IN  /\ reimbursements' = rs
         /\ reqs' = [reqs EXCEPT ![i] =
              IF todo = <<>>
                THEN [r EXCEPT !.pc = "done", !.status = 200,
                               !.result = ResultIn(expenses, rs, r.id)]
                ELSE [r EXCEPT !.pc = "insertReimbursement", !.todo = todo,
                               !.replaced = ResultOf(r.id).debts]]
  /\ UNCHANGED <<expenses, nextExpenseId, nextReimbursementId, pool, ledger>>

\* await insertReimbursement(...): the next peer debt of the edited expense;
\* after the last one the response is sent.
EditInsertReimbursement(i) ==
  /\ i \in 1..Len(reqs)
  /\ reqs[i].kind = "edit"
  /\ reqs[i].pc = "insertReimbursement"
  /\ LET r == reqs[i]
         row == insertReimbursement(nextReimbursementId, r.row, Head(r.todo))
         rs == EnsureSchemaReimbursements(reimbursements) \cup {row}
         ex == EnsureSchemaExpenses(expenses)
         last == Tail(r.todo) = <<>>
     IN  /\ reimbursements' = rs
         /\ expenses' = ex
         /\ nextReimbursementId' = nextReimbursementId + 1
         /\ reqs' = [reqs EXCEPT ![i] =
              [r EXCEPT !.todo = Tail(@),
                        !.created = Append(@, row),
                        !.pc = IF last THEN "done" ELSE @,
                        !.status = IF last THEN 200 ELSE @,
                        !.result = IF last THEN ResultIn(ex, rs, r.id) ELSE @]]
  /\ UNCHANGED <<nextExpenseId, pool, ledger>>

(***************************************************************************)
(* DELETE /api/expenses/:id  (deleteExpenseById)                           *)
(***************************************************************************)
\* The request arrives; DELETE FROM reimbursements WHERE expense_id = id.
DeleteExpense(cap, id) ==
  /\ CanArrive(cap)
  /\ id \in 0..(nextExpenseId - 1)
  /\ expenses' = EnsureSchemaExpenses(expenses)
  /\ reimbursements' = DeleteReimbursementsOf(EnsureSchemaReimbursements(reimbursements), id)
  /\ reqs' = Arrive([NewReq("delete", <<>>, id) EXCEPT !.pc = "deleteExpense"])
  /\ UNCHANGED <<nextExpenseId, nextReimbursementId, pool, ledger>>

\* DELETE FROM expenses WHERE id = id; 404 when no row was deleted.
DeleteExpenseRow(i) ==
  /\ i \in 1..Len(reqs)
  /\ reqs[i].kind = "delete"
  /\ reqs[i].pc = "deleteExpense"
  /\ LET r == reqs[i]
         deleted == r.id \in DOMAIN expenses
     IN  /\ expenses' = [id \in DOMAIN expenses \ {r.id} |-> expenses[id]]
         /\ reqs' = [reqs EXCEPT ![i] =
              [r EXCEPT !.pc = "done",
                        !.status = IF deleted THEN 200 ELSE 404,
                        !.error = IF deleted THEN "" ELSE "Not found"]]
  /\ UNCHANGED <<reimbursements, nextExpenseId, nextReimbursementId, pool, ledger>>

(***************************************************************************)
(* GET /api/reimbursements?otherParty=p  (getReimbursementBalance)         *)
(***************************************************************************)
MidEdit ==
  { i \in 1..Len(reqs) : /\ reqs[i].kind = "edit"
                         /\ reqs[i].pc = "insertReimbursement"
                         /\ ResultOf(reqs[i].id).debts # reqs[i].replaced }

GetBalance(cap, party) ==
  /\ CanArrive(cap)
  /\ party \in Parties \cup {Undef}
  /\ expenses' = EnsureSchemaExpenses(expenses)
  /\ reimbursements' = EnsureSchemaReimbursements(reimbursements)
  /\ reqs' = Arrive([NewReq("balance", <<>>, NoSuchId) EXCEPT
                       !.status = 200, !.party = party,
                       !.balance = getReimbursementBalance(
                                     EnsureSchemaReimbursements(reimbursements), party, CURRENCY),
                       !.midEdit = MidEdit])
  /\ UNCHANGED <<nextExpenseId, nextReimbursementId, pool, ledger>>

(***************************************************************************)
(* POST /webhook/whatsapp (no app secret configured, message text present) *)
(***************************************************************************)
\* The request arrives: parse, await insertExpense of the parsed message.
WebhookMessage(cap, text) ==
  /\ CanArrive(cap)
  /\ text \in pool
  /\ \E parsed \in {parseExpenseMessage(text)} :
     IF ~parsed.ok
       THEN /\ reqs' = Arrive([NewReq("webhook", text, NoSuchId) EXCEPT
                                 !.status = 200,
                                 !.error = "Could not parse amount from message"])
            /\ UNCHANGED db
       ELSE LET expense == insertExpense(nextExpenseId, parsed, CURRENCY)
            IN  /\ expenses' = EnsureSchemaExpenses(expenses) @@ (expense.id :> expense)
                /\ reimbursements' = EnsureSchemaReimbursements(reimbursements)
                /\ nextExpenseId' = nextExpenseId + 1
                /\ UNCHANGED nextReimbursementId
                /\ reqs' = Arrive([NewReq("webhook", text, expense.id) EXCEPT
                                     !.pc = "sumForRange",
                                     !.parsed = parsed, !.row = expense])
  /\ UNCHANGED <<pool, ledger>>

\* await sumForRange(...) twice, then the acknowledgement is sent.
WebhookAck(i) ==
  /\ i \in 1..Len(reqs)
  /\ reqs[i].kind = "webhook"
  /\ reqs[i].pc = "sumForRange"
  /\ expenses' = EnsureSchemaExpenses(expenses)
  /\ reimbursements' = EnsureSchemaReimbursements(reimbursements)
  /\ reqs' = [reqs EXCEPT ![i] =
       [@ EXCEPT !.pc = "done", !.status = 200, !.result = ResultOf(reqs[i].id)]]
  /\ UNCHANGED <<nextExpenseId, nextReimbursementId, pool, ledger>>

(***************************************************************************)
(* POST /api/ledger                                                        *)
(***************************************************************************)
LEDGER_TYPES == {"income", "transfer", "investment", "liability", "receivable"}

\* Fault: a message that did not parse is not turned away as such.
LedgerError_NoParseCheck(parsed) ==
  IF parsed.type \notin LEDGER_TYPES THEN "Unsupported ledger type"
  ELSE IF parsed.type = "receivable" /\ parsed.counterparty = <<>> THEN "Missing counterparty"
  ELSE IF parsed.type = "receivable" /\ parsed.direction = Undef THEN "Missing direction"
  ELSE ""

\* Fault: a receivable is accepted without a direction.
LedgerError_NoDirectionCheck(parsed) ==
  IF ~parsed.ok THEN "Could not parse amount from message"
  ELSE IF parsed.type \notin LEDGER_TYPES THEN "Unsupported ledger type"
  ELSE IF parsed.type = "receivable" /\ parsed.counterparty = <<>> THEN "Missing counterparty"
  ELSE ""

\* The checks made on a parsed message before the entry is inserted: the
\* error reported, or "" when there is none.
LedgerError(parsed) ==
  IF ~parsed.ok THEN "Could not parse amount from message"
  ELSE IF parsed.type \notin LEDGER_TYPES THEN "Unsupported ledger type"
  ELSE IF parsed.type = "receivable" /\ parsed.counterparty = <<>> THEN "Missing counterparty"
  ELSE IF parsed.type = "receivable" /\ parsed.direction = Undef THEN "Missing direction"
  ELSE ""

PostLedger(cap, text) ==
  /\ Len(reqs) < cap
  /\ InFlight = {}
  /\ text \in pool
  /\ \E parsed \in {parseExpenseMessage(text)} :
     LET error == IF text = <<>> THEN "Missing text" ELSE LedgerError(parsed)
     IN  IF error # ""
           THEN /\ reqs' = Arrive([NewReq("ledger", text, NoSuchId) EXCEPT
                                     !.status = 400, !.error = error])
                /\ UNCHANGED <<db, ledger>>
           ELSE LET entry == insertLedgerEntry(Len(ledger) + 1,
                               [occurredOn |-> IF parsed.occurredOn # Undef
                                                 THEN parsed.occurredOn ELSE "today",
                                type |-> parsed.type, amount |-> parsed.amount,
                                currency |-> parsed.currency,
                                direction |-> parsed.direction,
                                counterparty |-> parsed.counterparty,
                                account |-> parsed.account, asset |-> parsed.asset,
                                liability |-> parsed.liability, note |-> parsed.note])
                IN  /\ ledger' = Append(ledger, entry)
                    /\ expenses' = EnsureSchemaExpenses(expenses)
                    /\ reimbursements' = EnsureSchemaReimbursements(reimbursements)
                    /\ reqs' = Arrive([NewReq("ledger", text, NoSuchId) EXCEPT
                                         !.status = 200, !.parsed = parsed,
                                         !.entry = entry])
                    /\ UNCHANGED <<nextExpenseId, nextReimbursementId>>
  /\ UNCHANGED pool

(***************************************************************************)
(* GET /api/summary: the lifetime total of the expenses, the ledger totals *)
(* with the net worth, and the receivable balances.  currency is the       *)
(* CURRENCY setting of the process that answers; the totals by week, month *)
(* and year are left out.                                                  *)
(***************************************************************************)
\* SELECT COALESCE(SUM(amount), 0) FROM expenses
sumAllTime(ex) == SumAmounts({ ex[id] : id \in DOMAIN ex })

\* The four sums of getLedgerTotals, over WHERE currency = $1.
getLedgerTotals(entries, currency) ==
  LET rows == { entries[i] : i \in { j \in 1..Len(entries) : entries[j].currency = currency } }
      Total(type) == SumAmounts({ e \in rows : e.type = type })
  IN  [incomeTotal |-> Total("income"), savingsTotal |-> Total("transfer"),
       investmentTotal |-> Total("investment"), liabilityTotal |-> Total("liability")]

netWorth(allTime, t) ==
  RSub(t.incomeTotal,
       RAdd(RAdd(RAdd(allTime, t.savingsTotal), t.investmentTotal), t.liabilityTotal))

GetSummary(cap, currency) ==
  /\ Len(reqs) < cap
  /\ InFlight = {}
  /\ expenses' = EnsureSchemaExpenses(expenses)
  /\ reimbursements' = EnsureSchemaReimbursements(reimbursements)
  /\ \E allTime \in {sumAllTime(expenses')}, totals \in {getLedgerTotals(ledger, currency)} :
       reqs' = Arrive([NewReq("summary", <<>>, NoSuchId) EXCEPT
                         !.status = 200,
                         !.currency = currency,
                         !.allTime = allTime,
                         !.totals = totals,
                         !.netWorth = netWorth(allTime, totals),
                         !.receivables = getReceivableBalances(ledger, currency)])
  /\ UNCHANGED <<nextExpenseId, nextReimbursementId, pool, ledger>>

(***************************************************************************)
(* The messages clients send.  pool is the set of texts used in a run.     *)
(***************************************************************************)
PaidByTokens == { <<>>, <<TPaidBy("me")>>, <<TPaidBy("roommate")>>, <<TPaidBy("mom")>> }
ForTokens == { <<>>, <<TFor("kevin")>> }
SplitTokens ==
  { <<>>, <<TSplitEqual>>, <<TSplitRatio(2, 1)>>, <<TSplitRatio(1, 0)>>,
    <<TSplitWord("half")>>, <<TSplit, TRatio(1, 2)>>, <<TSplit>> }
OtherTokens ==
  { <<>>, <<TOther(<<"kevin">>)>>, <<TOther(<<"roommate">>)>>,
    <<TOther(<<"kevin", "roommate">>)>>,
    <<TOther(<<"Kevin">>), TOther(<<"kevin", "vyas">>)>>,
    <<TOther(<<"">>)>>,
    <<TOther(<<"vyas", "kevin", "roommate">>)>> }
AmountTokens == { <<TWord("food"), TNum(100)>> }

Unparseable == { <<TWord("hello")>>, <<TNum(0), TSplitEqual>>, <<TPaidBy("me")>> }

AllTexts ==
  { a \o pb \o sp \o fr \o ot :
      a \in AmountTokens, pb \in PaidByTokens, sp \in SplitTokens,
      fr \in ForTokens, ot \in OtherTokens }
  \cup Unparseable

SmallPool ==
  { <<TNum(90), TSplitEqual, TOther(<<"roommate">>)>>,
    <<TNum(100), TPaidBy("roommate"), TFor("kevin")>>,
    <<TNum(60)>> }

(***************************************************************************)
(* Spec: requests run concurrently (at most MaxInFlight at a time) on      *)
(* tables that start empty.                                                *)
(***************************************************************************)
EmptyTables ==
  /\ expenses = << >>
  /\ reimbursements = {}
  /\ nextExpenseId = 1
  /\ nextReimbursementId = 1
  /\ reqs = <<>>
  /\ ledger = <<>>

Init == EmptyTables /\ pool = SmallPool

Next ==
  \/ \E text \in pool : IngestMessage(MaxInFlight, text)
  \/ \E i \in 1..MaxOps : IngestInsertReimbursement(i)
  \/ \E i \in 1..MaxOps : IngestAck(i)
  \/ \E id \in 0..MaxOps, text \in pool : EditExpense(MaxInFlight, id, text)
  \/ \E i \in 1..MaxOps : EditDeleteReimbursements(i)
  \/ \E i \in 1..MaxOps : EditInsertReimbursement(i)
  \/ \E id \in 0..MaxOps : DeleteExpense(MaxInFlight, id)
  \/ \E i \in 1..MaxOps : DeleteExpenseRow(i)
  \/ \E party \in Parties \cup {Undef} : GetBalance(MaxInFlight, party)

Spec == Init /\ [][Next]_vars

(***************************************************************************)
(* AllocSpec: one message text, chosen from AllTexts, and BaseText are     *)
(* ingested and used to edit, one request at a time.                       *)
(***************************************************************************)
\* An expense with one peer debt, for edits to replace.
BaseText == <<TNum(60), TSplitEqual, TOther(<<"kevin">>)>>

AllocInit == EmptyTables /\ \E text \in AllTexts : pool = {text, BaseText}

AllocNext ==
  \/ \E text \in pool : IngestMessage(1, text)
  \/ \E i \in 1..MaxOps : IngestInsertReimbursement(i)
  \/ \E i \in 1..MaxOps : IngestAck(i)
  \/ \E id \in 0..MaxOps, text \in pool : EditExpense(1, id, text)
  \/ \E i \in 1..MaxOps : EditDeleteReimbursements(i)
  \/ \E i \in 1..MaxOps : EditInsertReimbursement(i)

AllocSpec == AllocInit /\ [][AllocNext]_vars

(***************************************************************************)
(* Properties.                                                             *)
(***************************************************************************)
(***************************************************************************)
(* IntakeSpec: one message, spelled in one of the ways of IntakeTexts, is  *)
(* sent to /api/ingest-message and to /webhook/whatsapp, one request at a  *)
(* time.  A text is: words, meta tokens or a date, a number, words.        *)
(***************************************************************************)
Prefixes ==
  { <<>>, <<TWord("spent")>>, <<TWord("Food")>>, <<TWord("groceries")>>,
    <<TWord("uber")>>, <<TWord("walmart")>>, <<TWord("lunch")>>, <<TWord("usd")>> }

IsoDate == TIso("2026-02-01", <<"2", "0", "2", "6", "-", "0", "2", "-", "0", "1">>)

Metas ==
  { <<>>,
    <<TKv("card", <<"amex", "4", "3", "2", "1">>)>>,
    <<TSplit, TRatio(2, 1)>>,
    <<TSplit, TRatio(0, 3)>>,
    <<TSplitRatio(1, 0), TPaidBy("roommate")>>,
    <<TOther(<<"Kevin", "kevin">>), TOther(<<"vyas", "Kevin">>), TSplitEqual>>,
    <<IsoDate>> }

\* Numbers as they are spelled, with the value each one stands for and the
\* symbols that follow the number in the same token.
AmountForms ==
  { [tok |-> TNum(250), value |-> Num(250), rest |-> <<>>],
    [tok |-> TAmt(<<"$", "1", ",", "2", "5", "0">>), value |-> Num(1250), rest |-> <<>>],
    [tok |-> TAmt(<<"1", "2", ".", "5", "0">>), value |-> Rat(25, 2), rest |-> <<>>],
    [tok |-> TAmt(<<"1", ",", "2", "5">>), value |-> Num(1), rest |-> <<",", "2", "5">>],
    [tok |-> TAmt(<<"4", "1", ",", "0", "0", "0", ".", "1", "2", "5", "x">>),
     value |-> Rat(4100012, 100), rest |-> <<"5", "x">>],
    [tok |-> TNum(0), value |-> Zero, rest |-> <<>>],
    [tok |-> TAmt(<<"0", ".", "0", "0">>), value |-> Zero, rest |-> <<>>] }

Suffixes == { <<>>, <<TWord("chai")>>, <<TWord("for"), TWord("dollar-tree")>> }

IntakeTexts ==
  { pre \o meta \o num \o suf :
      pre \in Prefixes, meta \in Metas,
      num \in { <<f.tok>> : f \in AmountForms } \cup { <<>> },
      suf \in Suffixes } \ { <<>> }

IntakeInit == EmptyTables /\ \E text \in IntakeTexts : pool = {text}

IntakeNext ==
  \/ \E text \in pool : IngestMessage(1, text)
  \/ \E i \in 1..MaxOps : IngestInsertReimbursement(i)
  \/ \E i \in 1..MaxOps : IngestAck(i)
  \/ \E text \in pool : WebhookMessage(1, text)
  \/ \E i \in 1..MaxOps : WebhookAck(i)

IntakeSpec == IntakeInit /\ [][IntakeNext]_vars

(***************************************************************************)
(* NullSpec: a message that may carry no usable amount, and BaseText, are  *)
(* ingested, used to edit and posted to the ledger, one request at a time. *)
(***************************************************************************)
NullTexts ==
  { <<TWord("hello"), TWord("there")>>,
    <<TNum(0), TWord("chai")>>,
    <<TAmt(<<"0", ".", "0", "0">>), TNum(5)>>,
    <<TKv("card", <<"4", "3", "2", "1">>), TWord("lunch")>>,
    <<TSplit, TRatio(2, 1), TOther(<<"kevin">>)>>,
    <<TSplitRatio(3, 1), TKv("type", <<"income">>)>>,
    <<IsoDate>>,
    <<IsoDate, TWord("rent")>>,
    <<TWord("yesterday")>>,
    <<TKv("type", <<"receivable">>), TKv("cp", <<"kevin">>), TKv("dir", <<"i_lent">>)>>,
    <<TWord("salary"), TNum(5000), TKv("type", <<"income">>)>>,
    <<TWord("rent"), TNum(1200), IsoDate>> }

NullInit == EmptyTables /\ \E text \in NullTexts : pool = {text, BaseText}

NullNext ==
  \/ \E text \in pool : IngestMessage(1, text)
  \/ \E i \in 1..MaxOps : IngestInsertReimbursement(i)
  \/ \E i \in 1..MaxOps : IngestAck(i)
  \/ \E id \in 0..MaxOps, text \in pool : EditExpense(1, id, text)
  \/ \E i \in 1..MaxOps : EditDeleteReimbursements(i)
  \/ \E i \in 1..MaxOps : EditInsertReimbursement(i)
  \/ \E text \in pool : PostLedger(MaxOps, text)

NullSpec == NullInit /\ [][NullNext]_vars

(***************************************************************************)
(* LedgerSpec: ledger messages are posted one at a time, and the summary   *)
(* is read, on tables that start empty.  The summary can still be read     *)
(* after the last post.                                                    *)
(***************************************************************************)
MaxPosts == 4

Receivable(cp, dir, amount) ==
  <<TNum(amount), TKv("type", <<"receivable">>), TKv("cp", <<cp>>), TKv("dir", <<dir>>)>>

LedgerPool ==
  { Receivable("kevin", "i_lent", 100),
    Receivable("kevin", "collect", 30),
    <<TWord("took"), TNum(1200), TKv("type", <<"Receivable">>),
      TKv("counterparty", <<"Kevin">>), TKv("direction", <<"i_borrowed">>)>>,
    Receivable("kevin", "repay", 50),
    Receivable("vyas", "i_lent", 20),
    <<TNum(40), TKv("type", <<"receivable">>), TKv("dir", <<"i_lent">>)>>,
    <<TNum(40), TKv("type", <<"receivable">>), TKv("person", <<"kevin">>), TKv("dir", <<"gift">>)>>,
    <<TWord("salary"), TNum(5000), TKv("type", <<"income">>), TKv("cp", <<"kevin">>)>>,
    <<TWord("coffee"), TNum(5)>> }

LedgerInit == EmptyTables /\ pool = LedgerPool

LedgerNext ==
  \/ \E text \in pool : PostLedger(MaxPosts, text)
  \/ GetSummary(MaxPosts + 1, CURRENCY)

LedgerSpec == LedgerInit /\ [][LedgerNext]_vars

(***************************************************************************)
(* DateSpec: one message with up to two date forms, written before or      *)
(* after the description and the amount, is ingested one request at a      *)
(* time.                                                                   *)
(***************************************************************************)
IsoOffCalendar ==
  TIso("2026-13-45", <<"2", "0", "2", "6", "-", "1", "3", "-", "4", "5">>)

DateForms ==
  { IsoDate, IsoOffCalendar,
    TSlash(<<"0", "5", "/", "0", "2", "/", "2", "0", "2", "6">>),
    TSlash(<<"3", "1", "/", "0", "2", "/", "2", "0", "2", "6">>),
    TSlash(<<"5", "/", "1", "3", "/", "2", "0", "2", "6">>),
    TSlash(<<"1", "/", "1", "/", "0", "0", "5", "0">>),
    TWord("yesterday"), TWord("today") }

DateSeqs ==
  { <<>> } \cup { <<a>> : a \in DateForms } \cup { <<a, b>> : a, b \in DateForms }

DateTexts ==
  { before \o <<TWord("lunch"), TNum(250)>> \o meta \o after :
      before \in { <<>> }, meta \in { <<>>, <<TSplitEqual, TOther(<<"kevin">>)>> },
      after \in DateSeqs }
  \cup
  { before \o <<TWord("lunch"), TNum(250)>> : before \in DateSeqs }

DateInit == EmptyTables /\ \E text \in DateTexts : pool = {text}

DateNext ==
  \/ \E text \in pool : IngestMessage(1, text)
  \/ \E i \in 1..MaxOps : IngestInsertReimbursement(i)
  \/ \E i \in 1..MaxOps : IngestAck(i)

DateSpec == DateInit /\ [][DateNext]_vars

(***************************************************************************)
(* MalformedSpec: one message made of a description with an amount and of  *)
(* split and paidby tokens whose values are not recognised, written before *)
(* or after it, is ingested one request at a time.                         *)
(***************************************************************************)
PlainTexts ==
  { <<TWord("lunch"), TNum(250)>>,
    <<TAmt(<<"$", "1", ",", "2", "5", "0">>), TWord("chai")>>,
    <<TWord("rent"), TAmt(<<"1", "2", ".", "5", "0">>), TOther(<<"kevin">>)>> }

MalformedSplits ==
  { <<TSplitWord("thirds")>>, <<TSplitRatio(1, 0)>>, <<TSplitRatio(0, 0)>>,
    <<TSplit, TRatio(0, 3)>> }

MalformedPaidBys == { <<TPaidBy("bob")>>, <<TPaidBy("0")>>, <<TPaidBy("2")>> }

MalformedTexts ==
  LET added == MalformedSplits \cup MalformedPaidBys
                 \cup { a \o b : a \in MalformedSplits, b \in MalformedPaidBys }
  IN  { a \o plain : a \in added, plain \in PlainTexts }
        \cup { plain \o a : a \in added, plain \in PlainTexts }
        \cup PlainTexts

MalformedInit == EmptyTables /\ \E text \in MalformedTexts : pool = {text}

MalformedNext ==
  \/ \E text \in pool : IngestMessage(1, text)
  \/ \E i \in 1..MaxOps : IngestInsertReimbursement(i)
  \/ \E i \in 1..MaxOps : IngestAck(i)

MalformedSpec == MalformedInit /\ [][MalformedNext]_vars

(***************************************************************************)
(* OrderSpec: two writings of one message are ingested one request at a    *)
(* time: the words with the metadata tokens at the end, and the same words *)
(* with the same metadata tokens put at other places.                      *)
(***************************************************************************)
WordTexts ==
  { <<TWord("lunch"), TNum(250), TWord("chai")>>,
    <<TWord("lunch"), TSplit, TRatio(2, 1), TNum(250)>> }

KeyValues ==
  { TKv("card", <<"amex">>), TKv("cp", <<"kevin">>), TKv("person", <<"vyas">>),
    TKv("dir", <<"i_lent">>), TPaidBy("roommate"), TOther(<<"kevin">>),
    TSplitEqual }

Ins(q, t, p) == SubSeq(q, 1, p) \o <<t>> \o SubSeq(q, p + 1, Len(q))

OrderInit ==
  /\ EmptyTables
  /\ \E words \in WordTexts, m1 \in KeyValues, m2 \in KeyValues :
       \E p1 \in 0..Len(words), p2 \in 0..(Len(words) + 1) :
         pool = { words \o <<m1, m2>>, Ins(Ins(words, m2, p1), m1, p2) }

OrderNext ==
  \/ \E text \in pool : IngestMessage(1, text)
  \/ \E i \in 1..MaxOps : IngestInsertReimbursement(i)
  \/ \E i \in 1..MaxOps : IngestAck(i)

OrderSpec == OrderInit /\ [][OrderNext]_vars

(***************************************************************************)
(* SummarySpec: messages are ingested as expenses and posted to the        *)
(* ledger one at a time, and the summary is read by a process whose        *)
(* CURRENCY setting is the default or another code.                        *)
(***************************************************************************)
Currencies == { CURRENCY, "INR" }

SummaryPool ==
  { <<TWord("salary"), TNum(5000), TKv("type", <<"income">>)>>,
    <<TNum(1000), TKv("type", <<"transfer">>), TKv("acct", <<"savings">>)>>,
    <<TNum(700), TKv("type", <<"investment">>)>>,
    <<TNum(300), TKv("type", <<"liability">>)>>,
    Receivable("kevin", "i_lent", 100),
    <<TWord("lunch"), TNum(60), TSplitEqual, TOther(<<"kevin">>)>> }

SummaryInit == EmptyTables /\ pool = SummaryPool

SummaryNext ==
  \/ \E text \in pool : PostLedger(MaxPosts, text)
  \/ \E text \in pool : IngestMessage(1, text)
  \/ \E i \in 1..MaxOps : IngestInsertReimbursement(i)
  \/ \E i \in 1..MaxOps : IngestAck(i)
  \/ \E currency \in Currencies : GetSummary(MaxPosts + 1, currency)

SummarySpec == SummaryInit /\ [][SummaryNext]_vars

(***************************************************************************)
(* TimeoutSpec: ingest requests run under the timeout guard, up to         *)
(* MaxInFlight at a time, while time passes.                               *)
(***************************************************************************)
TimeoutPool ==
  { <<TWord("lunch"), TNum(60), TSplitEqual, TOther(<<"kevin">>)>>,
    <<TWord("lunch")>> }

TimeoutInit == EmptyTables /\ pool = TimeoutPool

TimeoutNext ==
  \/ \E text \in pool : IngestMessage(MaxInFlight, text)
  \/ \E i \in 1..MaxOps : IngestInsertReimbursement(i)
  \/ \E i \in 1..MaxOps : IngestAck(i)
  \/ Tick
  \/ \E i \in 1..MaxOps : TimeoutFire(i)

TimeoutSpec == TimeoutInit /\ [][TimeoutNext]_vars

Reqs == 1..Len(reqs)
Done(i) == reqs[i].pc = "done"
Ok(i) == Done(i) /\ reqs[i].status = 200 /\ reqs[i].error = ""
Parsed(i) == parseExpenseMessage(reqs[i].text)
IsSplit(P) == P.splitType \in {"equal", "ratio"} /\ P.forPerson = Undef
PaidByMe(P) == P.paidBy \in {"me", Undef}
FirstParty(P) == IF Len(P.otherParties) > 0 THEN P.otherParties[1] ELSE "vyas"
RowsOf(id) == { r \in reimbursements : r.expenseId = id }

\* The name under which the tables end up holding a party.
StoredParty(p) == IF p = "roommate" THEN "vyas" ELSE p
StoredDebt(d) == [d EXCEPT !.otherParty = StoredParty(@)]
StoredSeqBag(q) ==
  [d \in { StoredDebt(q[k]) : k \in 1..Len(q) } |->
     Cardinality({ k \in 1..Len(q) : StoredDebt(q[k]) = d })]

RECURSIVE SumSeq(_)
SumSeq(q) == IF q = <<>> THEN Zero ELSE RAdd(Head(q).amount, SumSeq(Tail(q)))

\* C1: every reimbursement with an expense id refers to an existing expense,
\* and once a delete of an expense has completed no reimbursement of that
\* expense remains.
C1_NoOrphanReimbursement ==
  /\ \A r \in reimbursements : r.expenseId \in DOMAIN expenses
  /\ \A i \in Reqs : reqs[i].kind = "delete" /\ Done(i) => RowsOf(reqs[i].id) = {}

\* The peer debts the edit of request i computes from its text.
EditComputed(i) == EditPeerDebts(EditAllocate(Parsed(i)), Parsed(i).amount)
UndisturbedEdit(i) == reqs[i].kind = "edit" /\ Ok(i) /\ ~reqs[i].disturbed

\* The reimbursements of expense id as a read returns them, and row ids.
ReadRowsOf(id) == { r \in ReadReimbursements : r.expenseId = id }
RowIds(rows) == { r.id : r \in rows }

\* C2 (as claimed): after an edit of expense E with text T that no other
\* request on E overlapped or followed, the reimbursements of E are exactly
\* the peer debts computed from T, none of them created before the edit, and
\* there are none when T has neither a split nor a for: token.
C2_EditReplacesAsClaimed ==
  \A i \in Reqs : UndisturbedEdit(i) =>
    /\ DebtBag(ReadRowsOf(reqs[i].id)) = SeqDebtBag(EditComputed(i))
    /\ RowIds(ReadRowsOf(reqs[i].id)) \subseteq RowIds(SeqRange(reqs[i].created))
    /\ (Parsed(i).splitType = "none" /\ Parsed(i).forPerson = Undef
          => ReadRowsOf(reqs[i].id) = {})

\* C2 (amended): the same, as reads return the reimbursements of E, a peer
\* debt computed against the party "roommate" being held against "vyas".
C2_EditReplaces ==
  \A i \in Reqs : UndisturbedEdit(i) =>
    /\ DebtBag(ReadRowsOf(reqs[i].id)) = StoredSeqBag(EditComputed(i))
    /\ RowIds(ReadRowsOf(reqs[i].id)) \subseteq RowIds(SeqRange(reqs[i].created))
    /\ (Parsed(i).splitType = "none" /\ Parsed(i).forPerson = Undef
          => ReadRowsOf(reqs[i].id) = {})

\* An undisturbed edit has replaced peer debts that an earlier request left
\* on the expense by new ones.
C2_Witness ==
  \E i \in Reqs :
    /\ UndisturbedEdit(i)
    /\ reqs[i].created # <<>>
    /\ \E j \in 1..(i - 1) : reqs[j].id = reqs[i].id /\ reqs[j].created # <<>>
    /\ ReadRowsOf(reqs[i].id) # {}
    /\ RowIds(ReadRowsOf(reqs[i].id)) = RowIds(SeqRange(reqs[i].created))

\* C3: no balance read runs while an edit has deleted the old peer debts of
\* an expense and has not yet inserted all the new ones, that is, while the
\* expense shows neither its old peer debts nor its new ones.
C3_AtomicReplace ==
  \A i \in Reqs : reqs[i].kind = "balance" => reqs[i].midEdit = {}

IngestOk(i) == reqs[i].kind = "ingest" /\ Ok(i)
WroteOk(i) == reqs[i].kind \in {"ingest", "edit"} /\ Ok(i)
Latest(i) == i = Len(reqs)

\* A split expense paid by the roommate, without for: token.
RoommateSplit(i) ==
  IngestOk(i) /\ IsSplit(Parsed(i)) /\ Parsed(i).paidBy = "roommate"

\* What C4 says ingest creates: one i_owe_them reimbursement against the
\* first named party (or the default party) for myShare = the stored myAmount.
C4_Creates(i) ==
  /\ Len(reqs[i].created) = 1
  /\ reqs[i].created[1].direction = "i_owe_them"
  /\ reqs[i].created[1].otherParty = FirstParty(Parsed(i))
  /\ reqs[i].created[1].amount = reqs[i].row.myAmount
  /\ RPos(reqs[i].row.myAmount)

\* The net balance of party p is lower by the myAmount of request i than it
\* was when the request arrived, and every other party's is as it was.
C4_BalanceMoved(i, p) ==
  /\ NetOf(p) = RSub(reqs[i].before[p], reqs[i].row.myAmount)
  /\ \A q \in Parties \ {p} : NetOf(q) = reqs[i].before[q]

\* C4 (as claimed): for a split expense paid by the roommate without for:
\* token, ingest creates exactly one reimbursement, i_owe_them, against the
\* first named party (or the default), of amount myShare = stored myAmount;
\* the net balance of that party decreases by myShare and no other changes.
C4_RoommateSplitAsClaimed ==
  \A i \in Reqs : RoommateSplit(i) =>
    /\ C4_Creates(i)
    /\ (Latest(i) => C4_BalanceMoved(i, FirstParty(Parsed(i))))

\* C4 (amended): the balance that decreases is that of the party as the
\* tables hold it ("vyas" for a party named "roommate").
C4_RoommateSplit ==
  \A i \in Reqs : RoommateSplit(i) =>
    /\ C4_Creates(i)
    /\ (Latest(i) => C4_BalanceMoved(i, StoredParty(FirstParty(Parsed(i)))))

\* A second roommate-paid split has just been ingested against a named party.
C4_Witness ==
  \E i \in Reqs :
    /\ RoommateSplit(i) /\ Latest(i)
    /\ Len(Parsed(i).otherParties) > 0
    /\ reqs[i].before[StoredParty(FirstParty(Parsed(i)))] # Zero
    /\ NetOf(StoredParty(FirstParty(Parsed(i)))) # reqs[i].before[StoredParty(FirstParty(Parsed(i)))]

\* C5: an equal split paid by me (paidby omitted included) with n >= 1 named
\* parties: ingest stores myAmount = amount / (1 + n) and creates n
\* reimbursements, one per named party, each they_owe_me of amount / (1 + n);
\* myAmount plus the peer debts add up to the amount.
C5_EqualSplitPaidByMe ==
  \A i \in Reqs :
    LET P == Parsed(i)
        n == Len(P.otherParties)
        created == reqs[i].created
    IN  IngestOk(i) /\ IsSplit(P) /\ P.splitType = "equal" /\ PaidByMe(P) /\ n >= 1 =>
          /\ reqs[i].row.myAmount = RDivInt(P.amount, 1 + n)
          /\ Len(created) = n
          /\ \A k \in 1..n :
               /\ created[k].otherParty = P.otherParties[k]
               /\ created[k].direction = "they_owe_me"
               /\ created[k].amount = RDivInt(P.amount, 1 + n)
          /\ RAdd(reqs[i].row.myAmount, SumSeq(created)) = P.amount

\* An equal split among me and two named parties has been ingested.
C5_Witness ==
  \E i \in Reqs :
    /\ IngestOk(i) /\ IsSplit(Parsed(i)) /\ Parsed(i).splitType = "equal"
    /\ PaidByMe(Parsed(i)) /\ Len(Parsed(i).otherParties) = 2
    /\ Len(reqs[i].created) = 2
    /\ reqs[i].row.myAmount.d = 3

\* C6: a ratio split a/b paid by me with n >= 1 named parties (ingest or
\* edit): myAmount = amount * a / (a + b), each named party gets one
\* they_owe_me reimbursement of (amount - myAmount) / n, and myAmount plus
\* the peer debts add up to the amount.
C6_RatioSplitPaidByMe ==
  \A i \in Reqs :
    LET P == Parsed(i)
        n == Len(P.otherParties)
        created == reqs[i].created
        a == P.splitRatioMe
        b == P.splitRatioOther
    IN  WroteOk(i) /\ IsSplit(P) /\ P.splitType = "ratio" /\ PaidByMe(P) /\ n >= 1 =>
          /\ a > 0 /\ b > 0
          /\ reqs[i].row.myAmount = RDivInt(RMulInt(P.amount, a), a + b)
          /\ Len(created) = n
          /\ \A k \in 1..n :
               /\ created[k].otherParty = P.otherParties[k]
               /\ created[k].direction = "they_owe_me"
               /\ created[k].amount = RDivInt(RSub(P.amount, reqs[i].row.myAmount), n)
          /\ RAdd(reqs[i].row.myAmount, SumSeq(created)) = P.amount

\* A ratio split with two named parties has been written by an ingest and by
\* an edit.
C6_Witness ==
  \E i, j \in Reqs :
    /\ reqs[i].kind = "ingest" /\ reqs[j].kind = "edit"
    /\ \A k \in {i, j} :
         /\ WroteOk(k) /\ IsSplit(Parsed(k)) /\ Parsed(k).splitType = "ratio"
         /\ PaidByMe(Parsed(k)) /\ Len(Parsed(k).otherParties) >= 2
         /\ Len(reqs[k].created) >= 2

\* C7: with a for: token any split token is overridden (ingest or edit):
\* the expense is stored with myAmount = 0 and split type none, and exactly
\* one reimbursement is created, for the full amount, they_owe_me if I paid
\* and i_owe_them otherwise, against the first other: party if one is named
\* and against the for: person otherwise.
C7_ForPerson ==
  \A i \in Reqs :
    LET P == Parsed(i)
        created == reqs[i].created
    IN  WroteOk(i) /\ P.forPerson # Undef =>
          /\ reqs[i].row.myAmount = Zero
          /\ reqs[i].row.splitType = "none"
          /\ Len(created) = 1
          /\ created[1].amount = P.amount
          /\ created[1].amount = reqs[i].row.amount
          /\ created[1].direction = IF PaidByMe(P) THEN "they_owe_me" ELSE "i_owe_them"
          /\ created[1].otherParty =
               IF Len(P.otherParties) > 0 THEN P.otherParties[1] ELSE P.forPerson

\* A message with a for: token and a split token has been written by an
\* ingest and by an edit.
C7_Witness ==
  \E i, j \in Reqs :
    /\ reqs[i].kind = "ingest" /\ reqs[j].kind = "edit"
    /\ \A k \in {i, j} :
         /\ WroteOk(k) /\ Parsed(k).forPerson # Undef
         /\ Parsed(k).splitType # "none"
         /\ Len(reqs[k].created) = 1

\* C8: split type none and no for: token (ingest or edit): the expense is
\* stored with myAmount = amount and no reimbursement is created, whatever
\* other: and paidby: tokens the message has.
C8_NoSplit ==
  \A i \in Reqs :
    LET P == Parsed(i)
    IN  WroteOk(i) /\ P.splitType = "none" /\ P.forPerson = Undef =>
          /\ reqs[i].row.myAmount = P.amount
          /\ reqs[i].created = <<>>
          /\ reqs[i].result.debts = DebtBag({})

\* An unsplit message naming another party and the roommate as payer has
\* been written by an ingest and by an edit.
C8_Witness ==
  \E i, j \in Reqs :
    /\ reqs[i].kind = "ingest" /\ reqs[j].kind = "edit"
    /\ \A k \in {i, j} :
         /\ WroteOk(k) /\ Parsed(k).splitType = "none" /\ Parsed(k).forPerson = Undef
         /\ Len(Parsed(k).otherParties) > 0 /\ Parsed(k).paidBy = "roommate"

\* C9: a split (equal or ratio) with no other: party named uses the single
\* default party "vyas": ingest creates exactly one reimbursement, against
\* "vyas", and for an equal split myAmount = amount / 2.
C9_DefaultParty ==
  \A i \in Reqs :
    LET P == Parsed(i)
    IN  IngestOk(i) /\ IsSplit(P) /\ Len(P.otherParties) = 0 =>
          /\ Len(reqs[i].created) = 1
          /\ reqs[i].created[1].otherParty = "vyas"
          /\ (P.splitType = "equal" => reqs[i].row.myAmount = RDivInt(P.amount, 2))

\* An equal split naming nobody has been ingested, paid by me.
C9_Witness ==
  \E i \in Reqs :
    /\ IngestOk(i) /\ IsSplit(Parsed(i)) /\ Parsed(i).splitType = "equal"
    /\ Len(Parsed(i).otherParties) = 0 /\ PaidByMe(Parsed(i))
    /\ Len(reqs[i].created) = 1

\* C10: allocation is a function of the message alone: every ingest and
\* every edit with the same text leaves the same myAmount and the same
\* multiset of (otherParty, direction, amount) peer debts on its expense.
C10_AllocationIsAFunction ==
  \A i, j \in Reqs :
    WroteOk(i) /\ WroteOk(j) /\ reqs[i].text = reqs[j].text =>
      /\ reqs[i].result.found /\ reqs[j].result.found
      /\ reqs[i].result = reqs[j].result

\* An expense ingested from another text has been edited twice in
\* succession with a text that carries peer debts.
C10_Witness ==
  \E i, j, k \in Reqs :
    /\ i < j /\ k = j + 1
    /\ reqs[i].kind = "ingest" /\ reqs[j].kind = "edit" /\ reqs[k].kind = "edit"
    /\ WroteOk(i) /\ WroteOk(j) /\ WroteOk(k)
    /\ reqs[i].id = reqs[j].id /\ reqs[j].id = reqs[k].id
    /\ reqs[i].text # reqs[j].text /\ reqs[j].text = reqs[k].text
    /\ reqs[i].result # reqs[j].result
    /\ reqs[k].created # <<>>

\* The amounts of the records numbered 1..n held for party p in direction dir
\* and currency cur, added up one record id at a time.
RECURSIVE SumUpTo(_, _, _, _, _)
SumUpTo(rs, n, p, dir, cur) ==
  IF n = 0 THEN Zero
  ELSE LET hit == { r \in rs : /\ r.id = n /\ r.otherParty = p
                               /\ r.direction = dir /\ r.currency = cur }
       IN  RAdd(IF hit = {} THEN Zero ELSE (CHOOSE r \in hit : TRUE).amount,
                SumUpTo(rs, n - 1, p, dir, cur))

\* A balance request has just been answered for a named party.
BalanceAnswered ==
  /\ Len(reqs') = Len(reqs) + 1
  /\ reqs'[Len(reqs')].kind = "balance"
  /\ reqs'[Len(reqs')].party # Undef

C11_SumsAreExact ==
  BalanceAnswered =>
    LET r == reqs'[Len(reqs')]
        n == nextReimbursementId' - 1
        they == SumUpTo(ReadReimbursements', n, r.party, "they_owe_me", CURRENCY)
        mine == SumUpTo(ReadReimbursements', n, r.party, "i_owe_them", CURRENCY)
    IN  r.balance = [theyOweMe |-> they, iOweThem |-> mine, net |-> RSub(they, mine)]

\* One reimbursement record has just been inserted.
InsertedOne == nextReimbursementId' = nextReimbursementId + 1
Inserted == CHOOSE r \in reimbursements' : r.id = nextReimbursementId

\* The net of party p moved by the inserted amount, in the inserted direction.
NetIn(rs, p) == getReimbursementBalance(EnsureSchemaReimbursements(rs), p, CURRENCY).net
C11_NetMoved(p) ==
  NetIn(reimbursements', p) =
    IF Inserted.direction = "i_owe_them"
    THEN RSub(NetIn(reimbursements, p), Inserted.amount)
    ELSE RAdd(NetIn(reimbursements, p), Inserted.amount)

\* C11 as stated: a balance answer carries the sums of exactly the matching
\* records and net = theyOweMe - iOweThem, and inserting one record of
\* amount X for party P moves the net of P by X (down for i_owe_them, up for
\* they_owe_me).
C11_BalanceAsClaimed ==
  [][/\ C11_SumsAreExact
     /\ InsertedOne => C11_NetMoved(Inserted.otherParty)]_vars

\* C11: a balance answer carries the sums of exactly the matching records
\* and net = theyOweMe - iOweThem, and inserting one record of amount X for
\* party P moves by X the net of the name P is stored under (down for
\* i_owe_them, up for they_owe_me).
C11_Balance ==
  [][/\ C11_SumsAreExact
     /\ InsertedOne => C11_NetMoved(StoredParty(Inserted.otherParty))]_vars

\* After two insertions a balance has been answered for a party I owe, with
\* a negative net, while another party holds a record that owes me.
C11_Witness ==
  \E i \in Reqs :
    /\ reqs[i].kind = "balance" /\ reqs[i].party \in Parties
    /\ RPos(reqs[i].balance.iOweThem)
    /\ RLt(reqs[i].balance.net, Zero)
    /\ \E r \in reimbursements :
         /\ StoredParty(r.otherParty) # reqs[i].party
         /\ r.direction = "they_owe_me"

\* The entries of counterparty cp in direction dir, added up in the order
\* they were inserted.
RECURSIVE SumDirection(_, _, _)
SumDirection(entries, cp, dir) ==
  IF entries = <<>> THEN Zero
  ELSE LET e == Head(entries)
           x == IF /\ e.type = "receivable" /\ e.currency = CURRENCY
                   /\ e.counterparty = cp /\ e.direction = dir
                  THEN e.amount ELSE Zero
       IN  RAdd(x, SumDirection(Tail(entries), cp, dir))

ClaimedNet(entries, cp) ==
  RAdd(RSub(RSub(SumDirection(entries, cp, "i_lent"),
                 SumDirection(entries, cp, "collect")),
            SumDirection(entries, cp, "i_borrowed")),
       SumDirection(entries, cp, "repay"))

RMax(x, y) == IF RLt(x, y) THEN y ELSE x

Counterparties(entries) ==
  { entries[i].counterparty : i \in { j \in 1..Len(entries) :
       /\ entries[j].type = "receivable" /\ entries[j].currency = CURRENCY
       /\ entries[j].counterparty # <<>> } }

\* C12: for every counterparty with receivable entries in the currency,
\* getReceivableBalances returns net = sum(i_lent) - sum(collect) -
\* sum(i_borrowed) + sum(repay), theyOwe = max(net, 0) and iOwe =
\* max(-net, 0); at most one of theyOwe and iOwe is non-zero and
\* theyOwe - iOwe = net.
C12_ReceivableBalances ==
  LET rows == getReceivableBalances(ledger, CURRENCY)
  IN  /\ { r.counterparty : r \in rows } = Counterparties(ledger)
      /\ Cardinality(rows) = Cardinality(Counterparties(ledger))
      /\ \A r \in rows :
           /\ r.net = ClaimedNet(ledger, r.counterparty)
           /\ r.theyOwe = RMax(r.net, Zero)
           /\ r.iOwe = RMax(RSub(Zero, r.net), Zero)
           /\ r.theyOwe = Zero \/ r.iOwe = Zero
           /\ RSub(r.theyOwe, r.iOwe) = r.net
      /\ \A i \in Reqs :
           reqs[i].kind = "summary" /\ i = Len(reqs) => reqs[i].receivables = rows

\* The summary has been read when one counterparty has entries that add to
\* the net and entries that take from it, in three directions, and I owe
\* them on balance, while another counterparty owes me.
C12_Witness ==
  \E i \in Reqs :
    /\ reqs[i].kind = "summary" /\ i = Len(reqs)
    /\ \E r \in reqs[i].receivables :
         /\ RPos(SumDirection(ledger, r.counterparty, "i_borrowed"))
         /\ RPos(SumDirection(ledger, r.counterparty, "repay"))
         /\ RPos(SumDirection(ledger, r.counterparty, "i_lent"))
         /\ RPos(r.iOwe)
    /\ \E r \in reqs[i].receivables : RPos(r.theyOwe)

LedgerPosts == { i \in Reqs : reqs[i].kind = "ledger" }
LacksParty(P) == P.ok /\ P.type = "receivable" /\ P.counterparty = <<>>
LacksDirection(P) == P.ok /\ P.type = "receivable" /\ P.direction = Undef

\* C13: POST /api/ledger rejects a receivable message that lacks a
\* counterparty or lacks a direction and persists nothing for it; every
\* persisted entry has a type in {income, transfer, investment, liability,
\* receivable}, and every persisted receivable entry has a counterparty and
\* a direction.
C13_LedgerValidation ==
  /\ \A i \in LedgerPosts :
       LacksParty(Parsed(i)) \/ LacksDirection(Parsed(i)) =>
         /\ reqs[i].status = 400
         /\ reqs[i].error \in {"Missing counterparty", "Missing direction"}
         /\ reqs[i].entry = NoEntry
  /\ Len(ledger) = Cardinality({ i \in LedgerPosts : reqs[i].status = 200 })
  /\ \A k \in 1..Len(ledger) :
       /\ \E i \in LedgerPosts : reqs[i].status = 200 /\ reqs[i].entry = ledger[k]
       /\ ledger[k].type \in {"income", "transfer", "investment", "liability", "receivable"}
       /\ ledger[k].type = "receivable" =>
            ledger[k].counterparty # <<>> /\ ledger[k].direction \in Directions

\* A receivable without a counterparty and one without a (valid) direction
\* have been rejected, and a receivable and an income entry are persisted.
C13_Witness ==
  /\ \E i \in LedgerPosts : LacksParty(Parsed(i)) /\ reqs[i].status = 400
  /\ \E i \in LedgerPosts :
       ~LacksParty(Parsed(i)) /\ LacksDirection(Parsed(i)) /\ reqs[i].status = 400
  /\ \E k \in 1..Len(ledger) : ledger[k].type = "receivable"
  /\ \E k \in 1..Len(ledger) : ledger[k].type = "income" /\ ledger[k].direction = Undef

\* A request of the given kind has just arrived.
Arrived(kind) == Len(reqs') = Len(reqs) + 1 /\ reqs'[Len(reqs')].kind = kind

\* The step left every Expense and Reimbursement record as it was.
RecordsKept == ReadExpenses' = ReadExpenses /\ ReadReimbursements' = ReadReimbursements

\* C14: editing or deleting an expense id that does not exist yields an
\* explicit not-found result, and no step of the operation creates, modifies
\* or deletes an Expense or a Reimbursement record (an edit is taken with a
\* text that parses).
C14_NotFoundLeavesRecords ==
  [][LET r == reqs'[Len(reqs')]
     IN  /\ (Arrived("edit") /\ r.id \notin DOMAIN expenses
                /\ parseExpenseMessage(r.text).ok)
               => (r.pc = "done" /\ r.status = 404 /\ RecordsKept)
         /\ (Arrived("delete") /\ r.id \notin DOMAIN expenses) => RecordsKept
         /\ \A i \in Reqs :
              (/\ reqs[i].kind = "delete" /\ reqs[i].pc = "deleteExpense"
               /\ reqs'[i].pc = "done" /\ reqs[i].id \notin DOMAIN expenses)
                => (reqs'[i].status = 404 /\ RecordsKept)]_vars

\* The value a number token stands for, as AmountForms gives it.
ValueOf(t) ==
  IF t.k = "num" THEN Num(t.a)
  ELSE (CHOOSE f \in AmountForms : f.tok = t).value

\* The values of the tokens of a text that are numbers on their own; in the
\* texts used the digits of every other token belong to a meta token or to
\* a date.
RECURSIVE NumbersOf(_)
NumbersOf(text) ==
  IF text = <<>> THEN <<>>
  ELSE IF Head(text).k \in {"num", "amt"}
         THEN <<ValueOf(Head(text))>> \o NumbersOf(Tail(text))
         ELSE NumbersOf(Tail(text))

NoUsableAmount(text) == NumbersOf(text) = <<>> \/ ~RPos(NumbersOf(text)[1])

CouldNotParse == "Could not parse amount from message"

\* C15: parse returns null exactly when no usable amount is found (no number
\* is left once meta tokens and the date are removed, or the first one is
\* not positive); ingest, edit and ledger-post then answer at once with the
\* could-not-parse error and leave all Expense, Reimbursement and
\* LedgerEntry records unchanged.
C15_NullParse ==
  [][\A kind \in {"ingest", "edit", "ledger"} :
       Arrived(kind) =>
         LET r == reqs'[Len(reqs')]
         IN  /\ parseExpenseMessage(r.text).ok = ~NoUsableAmount(r.text)
             /\ NoUsableAmount(r.text) =>
                  /\ r.pc = "done" /\ r.error = CouldNotParse
                  /\ r.status = (IF kind = "ingest" THEN 200 ELSE 400)
                  /\ r.entry = NoEntry
                  /\ RecordsKept /\ ledger' = ledger
                  /\ nextExpenseId' = nextExpenseId
                  /\ nextReimbursementId' = nextReimbursementId
             /\ r.error = CouldNotParse => NoUsableAmount(r.text)]_vars

\* With an expense and its reimbursement in the tables, an edit of that
\* expense and a ledger post, both with a text without a usable amount, have
\* been turned away.
C15_Witness ==
  \E i, j, k \in Reqs :
    /\ reqs[i].kind = "ingest" /\ Ok(i) /\ reqs[i].created # <<>>
    /\ reqs[j].kind = "edit" /\ reqs[j].id = reqs[i].id /\ i < j
    /\ reqs[j].error = CouldNotParse /\ reqs[j].status = 400
    /\ reqs[k].kind = "ledger" /\ reqs[k].error = CouldNotParse
    /\ NoUsableAmount(reqs[j].text) /\ NoUsableAmount(reqs[k].text)
    /\ ReadRowsOf(reqs[i].id) # {} /\ ledger = <<>>

\* C16: a message received through /webhook/whatsapp goes through the same
\* ingest logic as one sent to /api/ingest-message: for the same text both
\* store an Expense with the same myAmount and create the same set of
\* (otherParty, direction, amount) Reimbursements.
C16_WebhookSameAsIngest ==
  \A i, j \in Reqs :
    /\ reqs[i].kind = "ingest" /\ Ok(i)
    /\ reqs[j].kind = "webhook" /\ Ok(j)
    /\ reqs[i].text = reqs[j].text
    => /\ reqs[i].result.found /\ reqs[j].result.found
       /\ reqs[i].result.myAmount = reqs[j].result.myAmount
       /\ reqs[i].result.debts = reqs[j].result.debts

\* Position k of the text holds a ratio-shaped split value, split:a/b or the
\* a/b that follows a bare split.
SplitValueAt(text, k) ==
  \/ text[k].k = "splitkv" /\ text[k].s = "ratio"
  \/ text[k].k = "ratio" /\ k > 1 /\ text[k - 1].k = "split"

BadRatio(text) ==
  \E k \in 1..Len(text) : SplitValueAt(text, k) /\ (text[k].a <= 0 \/ text[k].b <= 0)

\* C17: every non-null parse result has amount > 0, and splitType = ratio
\* only with both ratio components present and > 0; a ratio-shaped split
\* token with a non-positive component gives splitType = equal.
C17_ParseInvariant ==
  \A i \in Reqs :
    LET P == Parsed(i) IN
    P.ok =>
      /\ RPos(P.amount)
      /\ P.splitType = "ratio" =>
           /\ P.splitRatioMe # NoRatio /\ P.splitRatioOther # NoRatio
           /\ P.splitRatioMe > 0 /\ P.splitRatioOther > 0
      /\ BadRatio(reqs[i].text) => P.splitType = "equal"
      /\ reqs[i].parsed.splitType = P.splitType
      /\ reqs[i].parsed.amount = P.amount

\* A message whose split ratio has a zero component has been parsed and
\* stored by both routes.
C17_Witness ==
  \E i, j \in Reqs :
    /\ reqs[i].kind = "ingest" /\ reqs[j].kind = "webhook" /\ Ok(i) /\ Ok(j)
    /\ BadRatio(reqs[i].text)
    /\ Parsed(i).ok /\ Parsed(i).splitType = "equal"

HasToken(text, t) == \E k \in 1..Len(text) : text[k] = t

\* C18: for every message with a valid amount, parse returns the value of
\* the first number left after the meta tokens and the date are removed,
\* thousands separators and a leading currency marker stripped and a
\* fraction of one or two digits kept; the digits of a consumed meta token
\* or date never become the amount.
C18_Amount ==
  \A i \in Reqs :
    LET P == Parsed(i)
        numbers == NumbersOf(reqs[i].text)
    IN  /\ (numbers # <<>> /\ RPos(numbers[1])) => P.ok
        /\ P.ok => numbers # <<>> /\ P.amount = numbers[1]
        /\ (P.ok /\ reqs[i].id # NoSuchId) => reqs[i].row.amount = numbers[1]

\* '$1,250' after a date, and after a card number, has been stored as 1250.
C18_Witness ==
  \E i \in Reqs :
    /\ Ok(i) /\ reqs[i].row.amount = Num(1250)
    /\ HasToken(reqs[i].text, TAmt(<<"$", "1", ",", "2", "5", "0">>))
    /\ HasToken(reqs[i].text, IsoDate) \/ HasToken(reqs[i].text, TKv("card", <<"amex", "4", "3", "2", "1">>))
    /\ Parsed(i).occurredOn = "2026-02-01" \/ Parsed(i).card = <<"amex", "4", "3", "2", "1">>

\* The word usd in front of the number is a currency marker when the number
\* begins with a digit; in front of "$" it is a word like any other.
UsdIsMarker(text) ==
  \E k \in 1..Len(text) :
    \/ text[k].k = "num"
    \/ text[k].k = "amt" /\ IsDigit(text[k].ps[1])

\* The description of a text of IntakeTexts: its words and what follows the
\* number in the number's token, without the stop-words spent and for and
\* without the currency marker.
RECURSIVE DescriptionFrom(_, _)
DescriptionFrom(text, dropped) ==
  IF text = <<>> THEN <<>>
  ELSE LET t == Head(text)
           piece == IF t.k = "word" /\ t.s \notin dropped THEN <<<<t.s>>>>
                    ELSE IF t.k = "amt"
                      THEN NonEmpty((CHOOSE f \in AmountForms : f.tok = t).rest)
                    ELSE <<>>
       IN  piece \o DescriptionFrom(Tail(text), dropped)

Description(text) ==
  DescriptionFrom(text, {"spent", "for"} \cup (IF UsdIsMarker(text) THEN {"usd"} ELSE {}))

\* The canonical names the words of the texts have.
Canonical ==
  [w \in {"Food", "uber", "walmart", "dollar-tree"} |->
     CASE w = "Food" -> "food"
       [] w = "uber" -> "transport"
       [] OTHER -> "shopping"]

CanonicalAsClaimed == Canonical @@ ("groceries" :> "grocery")

\* category and note are as the table canon has them.
Classified(P, text, canon) ==
  LET d == Description(text)
      known == d # <<>> /\ Len(d[1]) = 1 /\ d[1][1] \in DOMAIN canon
  IN  IF known THEN P.category = canon[d[1][1]] /\ P.note = Tail(d)
      ELSE P.category = Undef /\ P.note = d

RECURSIVE NamesOf(_)
NamesOf(text) ==
  IF text = <<>> THEN <<>>
  ELSE (IF Head(text).k = "other" THEN FilterNonEmpty(Head(text).ps) ELSE <<>>)
         \o NamesOf(Tail(text))

\* The first occurrence of every name, names compared without regard to case.
RECURSIVE FirstSeen(_, _)
FirstSeen(names, seen) ==
  IF names = <<>> THEN <<>>
  ELSE IF Lower(Head(names)) \in seen THEN FirstSeen(Tail(names), seen)
       ELSE <<Head(names)>> \o FirstSeen(Tail(names), seen \cup {Lower(Head(names))})

\* C20: other:<x> tokens accumulate into otherParties in first-seen order,
\* deduplicated case-insensitively with the first-seen casing kept, so that
\* no name occurs twice; whenever otherParties is non-empty, otherParty is
\* otherParties[0].
C20_OtherParties ==
  \A i \in Reqs :
    LET P == Parsed(i) IN
    P.ok =>
      /\ P.otherParties = FirstSeen(NamesOf(reqs[i].text), {})
      /\ \A a, b \in 1..Len(P.otherParties) :
           Lower(P.otherParties[a]) = Lower(P.otherParties[b]) => a = b
      /\ P.otherParties # <<>> => P.otherParty = P.otherParties[1]

(***************************************************************************)
(* C21: parse takes one date from the text by priority: an ISO date, then  *)
(* a date written with slashes, then the words yesterday and today.  The   *)
(* chosen form gives occurredOn, every date form of lower priority stays   *)
(* in the text that is left, and without any date form occurredOn is       *)
(* unset.                                                                  *)
(***************************************************************************)
DatePriority == <<"isodate", "slashdate", "yesterday", "today">>

FormOf(t) ==
  IF t.k \in {"isodate", "slashdate"} THEN t.k
  ELSE IF IsWord(t, "yesterday") THEN "yesterday"
  ELSE IF IsWord(t, "today") THEN "today"
  ELSE "none"

FormsIn(q) == { FormOf(q[i]) : i \in 1..Len(q) } \ {"none"}

\* Position in DatePriority of the first form that occurs in q, or 0.
ChosenForm(q) ==
  LET ranks == { n \in 1..Len(DatePriority) : DatePriority[n] \in FormsIn(q) }
  IN  IF ranks = {} THEN 0 ELSE CHOOSE n \in ranks : \A k \in ranks : n <= k

RECURSIVE OfOtherForms(_, _)
OfOtherForms(q, form) ==
  IF q = <<>> THEN <<>>
  ELSE IF FormOf(Head(q)) = form THEN OfOtherForms(Tail(q), form)
       ELSE <<Head(q)>> \o OfOtherForms(Tail(q), form)

\* The leftmost token of q written in the given form.
Leftmost(q, form) ==
  CHOOSE p \in 1..Len(q) : FormOf(q[p]) = form /\ \A r \in 1..(p - 1) : FormOf(q[r]) # form

DateTaken(text) ==
  LET kept == extractMetaTokens(text).cleaned
      n == ChosenForm(kept)
      res == parseDateToken(kept)
  IN  IF n = 0 THEN res.occurredOn = Undef /\ res.cleaned = kept
      ELSE /\ res.occurredOn # Undef
           /\ OfOtherForms(res.cleaned, DatePriority[n]) = OfOtherForms(kept, DatePriority[n])
           /\ Len(res.cleaned) < Len(kept)
           /\ n <= 2 =>
                LET p == Leftmost(kept, DatePriority[n])
                IN  res.cleaned = SubSeq(kept, 1, p - 1) \o SubSeq(kept, p + 1, Len(kept))
           /\ n = 1 => res.occurredOn = kept[Leftmost(kept, "isodate")].s
           /\ n = 3 => res.occurredOn = "yesterday"
           /\ n = 4 => res.occurredOn = "today"

Written(t) ==
  IF t.k = "isodate"
    THEN [y |-> Number(SubSeq(t.ps, 1, 4)), m |-> Number(SubSeq(t.ps, 6, 7)),
          d |-> Number(SubSeq(t.ps, 9, 10))]
  ELSE LET g == SlashGroups(t.ps) IN [y |-> g.yyyy, m |-> g.mm, d |-> g.dd]

OnCalendar(w) == w.m \in 1..12 /\ w.d \in 1..DaysIn(w.y, w.m)

Pad4(n) ==
  IF n < 10 THEN "000" \o ToString(n)
  ELSE IF n < 100 THEN "00" \o ToString(n)
  ELSE IF n < 1000 THEN "0" \o ToString(n)
  ELSE ToString(n)

C30_OccurredOnIsTheWrittenDay ==
  \A i \in Reqs :
    LET kept == extractMetaTokens(reqs[i].text).cleaned
        n == ChosenForm(kept)
    IN  (reqs[i].parsed.ok /\ n \in {1, 2}) =>
          LET w == Written(kept[Leftmost(kept, DatePriority[n])])
          IN  /\ OnCalendar(w)
              /\ reqs[i].parsed.occurredOn
                   = Pad4(w.y) \o "-" \o Pad2(w.m) \o "-" \o Pad2(w.d)

(***************************************************************************)
(* C22: a split token with an unknown value or a bad ratio, or a paidby    *)
(* token with a value that is not recognised, added to a message with a    *)
(* valid amount, leaves the amount as it was, with splitType equal and     *)
(* paidBy unset.                                                           *)
(***************************************************************************)
BadSplitAt(q, i) ==
  \/ q[i].k = "splitkv" /\ q[i].s # "equal"
       /\ ~(q[i].s = "ratio" /\ q[i].a > 0 /\ q[i].b > 0)
  \/ q[i].k = "split" /\ i < Len(q) /\ q[i + 1].k = "ratio"
       /\ ~(q[i + 1].a > 0 /\ q[i + 1].b > 0)

BadPaidByAt(q, i) == q[i].k = "paidby" /\ q[i].s \notin {"me", "roommate"}

\* The message without the tokens that are not recognised.
RECURSIVE WithoutMalformed(_, _)
WithoutMalformed(q, i) ==
  IF i > Len(q) THEN <<>>
  ELSE IF BadSplitAt(q, i) THEN WithoutMalformed(q, IF q[i].k = "split" THEN i + 2 ELSE i + 1)
  ELSE IF BadPaidByAt(q, i) THEN WithoutMalformed(q, i + 1)
  ELSE <<q[i]>> \o WithoutMalformed(q, i + 1)

C22_MalformedMetaKeepsAmount ==
  \A i \in Reqs :
    LET text == reqs[i].text
        plain == parseExpenseMessage(WithoutMalformed(text, 1))
        at == 1..Len(text)
    IN  (plain.ok /\ \E p \in at : BadSplitAt(text, p) \/ BadPaidByAt(text, p)) =>
          /\ reqs[i].parsed.ok
          /\ reqs[i].parsed.amount = plain.amount
          /\ (\E p \in at : BadSplitAt(text, p)) => reqs[i].parsed.splitType = "equal"
          /\ (\E p \in at : BadPaidByAt(text, p)) => reqs[i].parsed.paidBy = Undef

(***************************************************************************)
(* C23: metadata tokens of the form key:value with pairwise distinct keys  *)
(* can be moved to any place among the other words of a message without    *)
(* changing any field of the parse result, and no consumed metadata token  *)
(* is in the note.                                                         *)
(***************************************************************************)
IsKeyValue(t) ==
  t.k \notin {"word", "num", "ratio", "amt", "isodate", "slashdate", "split"}

RECURSIVE Select(_, _)
Select(q, kv) ==
  IF q = <<>> THEN <<>>
  ELSE IF IsKeyValue(Head(q)) = kv THEN <<Head(q)>> \o Select(Tail(q), kv)
       ELSE Select(Tail(q), kv)

\* Two writings of one message: the same other words in the same order and
\* the same metadata tokens.
Rearranged(a, b) ==
  /\ Select(a, FALSE) = Select(b, FALSE)
  /\ SeqRange(Select(a, TRUE)) = SeqRange(Select(b, TRUE))
  /\ Len(Select(a, TRUE)) = Len(Select(b, TRUE))

DistinctKeys(a) ==
  \A i, j \in 1..Len(a) : (IsKeyValue(a[i]) /\ IsKeyValue(a[j]) /\ i # j) => a[i].k # a[j].k

\* The field of the result a token writes to.
FieldOf(t) ==
  CASE t.k \in {"acct", "account"} -> "account"
    [] t.k \in {"asset", "inv", "investment"} -> "asset"
    [] t.k \in {"liab", "liability"} -> "liability"
    [] t.k \in {"cp", "counterparty", "person"} -> "counterparty"
    [] t.k \in {"dir", "direction"} -> "direction"
    [] t.k \in {"for", "owner"} -> "forPerson"
    [] t.k \in {"split", "splitkv"} -> "splitType"
    [] OTHER -> t.k

DistinctFields(a) ==
  \A i, j \in 1..Len(a) :
    (i # j /\ (IsKeyValue(a[i]) \/ a[i].k = "split") /\ (IsKeyValue(a[j]) \/ a[j].k = "split"))
      => FieldOf(a[i]) # FieldOf(a[j])

\* No metadata token stands between the word split and the ratio after it.
RatioFollowsSplit(a) ==
  \A i \in 1..(Len(a) - 1) : a[i].k = "split" => ~IsKeyValue(a[i + 1])

NoteFreeOfMeta(parsed) ==
  \A n \in 1..Len(parsed.note) : ~(Len(parsed.note[n]) >= 2 /\ parsed.note[n][2] = ":")

SameParse(i, j) ==
  /\ reqs[i].parsed = reqs[j].parsed
  /\ NoteFreeOfMeta(reqs[i].parsed)

\* As claimed: distinct keys are enough.
C23_OrderAsClaimed ==
  \A i, j \in Reqs :
    (/\ Rearranged(reqs[i].text, reqs[j].text)
     /\ DistinctKeys(reqs[i].text)) => SameParse(i, j)

\* Amended: the tokens write to distinct fields, and none is put between the
\* word split and its ratio.
C23_OrderIndependent ==
  \A i, j \in Reqs :
    (/\ Rearranged(reqs[i].text, reqs[j].text)
     /\ DistinctFields(reqs[i].text)
     /\ RatioFollowsSplit(reqs[i].text) /\ RatioFollowsSplit(reqs[j].text)) => SameParse(i, j)

\* Two different writings, with two metadata tokens each, parsed alike.
C23_Witness ==
  \E i, j \in Reqs :
    /\ reqs[i].text # reqs[j].text
    /\ Rearranged(reqs[i].text, reqs[j].text)
    /\ DistinctFields(reqs[i].text)
    /\ RatioFollowsSplit(reqs[i].text) /\ RatioFollowsSplit(reqs[j].text)
    /\ IsKeyValue(reqs[j].text[1]) /\ ~IsKeyValue(reqs[j].text[Len(reqs[j].text)])
    /\ reqs[i].parsed.ok /\ reqs[i].parsed.card # <<>> /\ reqs[i].parsed.paidBy = "roommate"
    /\ SameParse(i, j)

(***************************************************************************)
(* C24: the ledger totals of the summary are the sums of the amounts of    *)
(* the income, transfer, investment and liability entries of the currency, *)
(* and netWorth is incomeTotal less the sum of the lifetime expense total, *)
(* savingsTotal, investmentTotal and liabilityTotal, the lifetime expense  *)
(* total being taken over the expenses of that same currency.              *)
(***************************************************************************)
RECURSIVE SumOfType(_, _, _, _)
SumOfType(entries, n, type, currency) ==
  IF n = 0 THEN Zero
  ELSE RAdd(IF entries[n].type = type /\ entries[n].currency = currency
              THEN entries[n].amount ELSE Zero,
            SumOfType(entries, n - 1, type, currency))

RECURSIVE SumOfExpenses(_, _, _)
SumOfExpenses(ex, n, currency) ==
  IF n = 0 THEN Zero
  ELSE RAdd(IF n \in DOMAIN ex /\ ex[n].currency = currency THEN ex[n].amount ELSE Zero,
            SumOfExpenses(ex, n - 1, currency))

C24_LedgerTotalsAndNetWorth ==
  \A i \in Reqs :
    (reqs[i].kind = "summary" /\ i = Len(reqs)) =>
      LET c == reqs[i].currency
          t == reqs[i].totals
          Of(type) == SumOfType(ledger, Len(ledger), type, c)
      IN  /\ t.incomeTotal = Of("income")
          /\ t.savingsTotal = Of("transfer")
          /\ t.investmentTotal = Of("investment")
          /\ t.liabilityTotal = Of("liability")
          /\ reqs[i].netWorth
               = RSub(t.incomeTotal,
                      RAdd(SumOfExpenses(expenses, nextExpenseId, c),
                           RAdd(t.savingsTotal, RAdd(t.investmentTotal, t.liabilityTotal))))

(***************************************************************************)
(* C25: after a successful edit of an expense with a text, the stored      *)
(* amount, myAmount, category, note, card, paidBy, splitType, split ratio  *)
(* and otherParty are those that ingesting the text as a new expense would *)
(* store, fields absent from the text being cleared, and id and currency   *)
(* are as before the edit.                                                 *)
(***************************************************************************)
DerivedFields ==
  {"amount", "myAmount", "category", "note", "card", "paidBy", "splitType",
   "splitRatioMe", "splitRatioOther", "otherParty"}

\* The row ingest stores for a text.
AsIngested(id, text) == insertExpense(id, IngestAllocate(parseExpenseMessage(text)), CURRENCY)

C25_EditStoresWhatIngestWould ==
  \A i \in Reqs :
    (/\ i = Len(reqs) /\ reqs[i].kind = "edit"
     /\ reqs[i].pc = "done" /\ reqs[i].status = 200) =>
      LET row == expenses[reqs[i].id]
          fresh == AsIngested(reqs[i].id, reqs[i].text)
      IN  /\ \A f \in DerivedFields : row[f] = fresh[f]
          /\ row.id = reqs[i].id
          /\ row.currency = fresh.currency

(***************************************************************************)
(* C26: when two edits of one expense run at the same time and both have   *)
(* completed, the reimbursements of the expense are exactly the peer debts *)
(* of one of the two edits, the one whose fields the expense holds: no     *)
(* peer debt twice, no mix of the two sets.                                *)
(***************************************************************************)
\* Edit j arrived while edit i of the same expense was in flight, no other
\* request on the expense ran with either, and both were answered with 200.
ConcurrentEdits(i, j) ==
  /\ i < j
  /\ reqs[i].kind = "edit" /\ reqs[j].kind = "edit"
  /\ reqs[i].id = reqs[j].id
  /\ reqs[i].overlaps = {} /\ reqs[j].overlaps = {i}
  /\ \A k \in Reqs : (k > i /\ k # j) => reqs[k].id # reqs[i].id
  /\ Ok(i) /\ Ok(j)

\* The row an edit wrote, as a later read returns it.
RowAsRead(row) == EnsureSchemaExpenses(row.id :> row)[row.id]

HoldsEditOf(w) ==
  /\ DebtBag(ReadRowsOf(reqs[w].id)) = StoredSeqBag(EditComputed(w))
  /\ ReadExpenses[reqs[w].id] = RowAsRead(reqs[w].row)

C26_ConcurrentEditsLeaveOneSet ==
  \A i, j \in Reqs : ConcurrentEdits(i, j) => HoldsEditOf(i) \/ HoldsEditOf(j)

(***************************************************************************)
(* C27: a message the web form builds for "paid for me", with the tokens   *)
(* paidby:roommate, other:<payer> and split:1/0, is recorded with myAmount *)
(* equal to the full amount and exactly one reimbursement, i_owe_them, of  *)
(* the full amount against the payer.                                      *)
(***************************************************************************)
\* The payer named by the message, or Undef when the message is not one the
\* form builds for "paid for me".
PaidForMePayer(text) ==
  LET at(P(_)) == { p \in 1..Len(text) : P(text[p]) }
      paid(t) == t.k = "paidby" /\ t.s = "roommate"
      split(t) == t.k = "splitkv" /\ t.s = "ratio" /\ t.a = 1 /\ t.b = 0
      other(t) == t.k = "other" /\ Len(t.ps) = 1 /\ t.ps[1] # ""
      meta(t) == IsKeyValue(t) \/ t.k \in {"split", "ratio"}
  IN  IF /\ at(paid) # {} /\ at(split) # {} /\ at(other) # {}
         /\ Cardinality(at(meta)) = 3
        THEN text[CHOOSE p \in at(other) : TRUE].ps[1]
        ELSE Undef

C27_PaidForMe ==
  \A i \in Reqs :
    (reqs[i].kind = "ingest" /\ Ok(i) /\ PaidForMePayer(reqs[i].text) # Undef) =>
      /\ reqs[i].row.myAmount = reqs[i].row.amount
      /\ Len(reqs[i].created) = 1
      /\ reqs[i].created[1].direction = "i_owe_them"
      /\ reqs[i].created[1].amount = reqs[i].row.amount
      /\ reqs[i].created[1].otherParty = Lower(PaidForMePayer(reqs[i].text))

(***************************************************************************)
(* C28: in every state each stored expense has 0 <= myAmount <= amount,    *)
(* and each reimbursement created for an expense has an amount above 0 and *)
(* not above the amount of that expense.                                   *)
(***************************************************************************)
C28_AmountsWithinExpense ==
  /\ \A id \in DOMAIN expenses :
       RLe(Zero, expenses[id].myAmount) /\ RLe(expenses[id].myAmount, expenses[id].amount)
  /\ \A r \in reimbursements :
       r.expenseId \in DOMAIN expenses =>
         RPos(r.amount) /\ RLe(r.amount, expenses[r.expenseId].amount)

(***************************************************************************)
(* C29: every request under the timeout guard gets exactly one response,   *)
(* no later than the timeout after the guard ran: the 504 is sent only     *)
(* while the handler has not sent headers, the timer is cleared when the   *)
(* handler's response finishes, and the handler sends no response after    *)
(* the 504.                                                                *)
(***************************************************************************)
\* The statuses handed to the response of request i, in the order sent: the
\* 504 is sent only while the timer is pending, so it precedes the handler's.
Responses(i) ==
  (IF reqs[i].timedOut THEN <<504>> ELSE <<>>)
  \o (IF reqs[i].pc = "done" THEN <<reqs[i].status>> ELSE <<>>)

AtMostOneResponse(i) == Len(Responses(i)) <= 1
WithinTimeout(i) == reqs[i].age <= TimeoutTicks
TimedOutWhenDue(i) == reqs[i].timedOut => reqs[i].age = TimeoutTicks
C29_GuardParts ==
  \A i \in Reqs : WithinTimeout(i) /\ TimedOutWhenDue(i)

C29_OneResponseWithinTimeout ==
  \A i \in Reqs :
    /\ AtMostOneResponse(i)
    /\ WithinTimeout(i)
    /\ TimedOutWhenDue(i)

====
